---- MODULE Spec2Model ----
(***************************************************************************)
(* Verification model of vhvplatform/go-api-gateway.                       *)
(*                                                                         *)
(* Part 1: the circuit breaker registry (internal/circuitbreaker), a thin  *)
(* wrapper that configures one sony/gobreaker breaker per upstream name    *)
(* and runs every call through breaker.Execute.                            *)
(* Part 2: the per-key rate limiter (internal/middleware/rate_limit.go and *)
(* its older variant without the double-checked insert).                   *)
(***************************************************************************)
EXTENDS Integers, Sequences, FiniteSets, TLC

VARIABLES
    cbNow,      \* wall clock seen by the breakers, in units of 30 s
    breakers,   \* CircuitBreaker.breakers: name -> breaker record, or NoBreaker
    calls,      \* one record per caller goroutine: where it is in Execute
    last,       \* what the most recent Execute/ExecuteContext call met and returned
    rlNow,      \* wall clock seen by the rate limiter, in ticks of 1/TicksPerSecond s
    limiters,   \* RateLimiter.limiters: key -> limiterEntry, or NoEntry
    rlLast,     \* the most recent request through RateLimitMiddleware
    glMap,      \* per GetLimiter variant, its RateLimiter.limiters: key -> entry
    glProc,     \* goroutines inside GetLimiter: position and locals
    glHist,     \* per variant and key: limiters created and limiters returned
    auNow,      \* wall clock seen by the authenticate stage, in units of 15 min
    tokCache,   \* the verified-token cache: "token:<opaque>" -> record and expiry
    authValid,  \* the tokens the Auth collaborator holds valid
    auReq,      \* request goroutines inside AuthMiddleware: position and locals
    auLast,     \* the most recent step of a request through AuthMiddleware
    auHist,     \* what has happened so far: verifications, mints, logouts
    pxEnv,      \* the services whose URL the environment of the dispatcher sets
    pxReq,      \* the request the dispatcher is serving, or has just served
    pxRun,      \* the last service contacted and its failed contacts in a row
    plMetrics,  \* whether the pipeline was built with the metrics stage
    plReq,      \* the request walking the middleware chain, or just answered
    plGen,      \* how many correlation ids have been generated
    caNow,      \* wall clock seen by the caches
    l1Store,    \* L1: the items ristretto has stored, key -> data and expiry
    l1Buf,      \* L1: ristretto's set buffer, items not yet applied
    l2Store,    \* L2: the items Redis holds, key -> data and expiry
    caLaw,      \* per level and key, what the last set or delete promises
    caLast,     \* the most recent call of a cache wrapper and its result
    tcCall,     \* the two-level Set in progress, or just returned
    l2Given,    \* per key, the data written to L2 by the two-level Set
    pmCache,    \* the cached permission list of the caller
    pmLast,     \* the most recent request through RequirePermission
    hcNow,      \* seconds since CheckAll was called
    hcChecks,   \* HealthChecker.checks: name -> what the check does
    hcRun,      \* the CheckAll call in progress: position and locals
    hcLast,     \* the most recent answer of /health
    lcProgram,  \* which program runs the sweeper: the gateway or the benchmark
    lcEnv,      \* the optional settings the gateway was started with
    lcMain,     \* main of the gateway: its position
    lcLog,      \* the shutdown steps main has taken, in order
    lcInflight, \* requests the server is handling
    lcCtxDone,  \* whether the context given to the sweeper is cancelled
    lcSweeper,  \* the sweeper goroutine: position, pending tick, sweeps made
    gbMap,     \* the breaker registry: name -> instance, 0 for none
    gbLock,    \* the goroutine holding cb.mu for writing
    gbProc,    \* goroutines inside GetBreaker: position and locals
    gbHist,    \* per name, the instances created and the instances returned
    ibNow,     \* wall clock seen by the two breakers, in units of 30 s
    ibBreakers,  \* the registry of the two services: name -> breaker record
    ibFailed,  \* the names under which a call has failed
    ibLast,    \* the most recent call: its name and what it returned
    swNow,     \* wall clock seen by the sweeper, in units of 5 min
    swLimiters,  \* RateLimiter.limiters: key -> entry with its lastAccess
    swLock,    \* who holds rl.mu for writing
    swCall,    \* the goroutine inside GetLimiter: position and key
    swSweeper,  \* the sweeper: position and the clock reading of its sweep
    swTouched, \* per key, when GetLimiter last reached the entry
    mgGauge,   \* value of the ActiveRequests gauge
    mgReq,     \* each request's position in the metrics stage
    mgTotal,   \* increments of RequestsTotal
    mgArrived,  \* requests that entered the stage
    mgEnded    \* the ways c.Next() has ended so far

cbVars == <<cbNow, breakers, calls, last>>

rlVars == <<rlNow, limiters, rlLast>>

glVars == <<glMap, glProc, glHist>>

auVars == <<auNow, tokCache, authValid, auReq, auLast, auHist>>

pxVars == <<pxEnv, pxReq, pxRun>>

plVars == <<plMetrics, plReq, plGen>>

caVars == <<caNow, l1Store, l1Buf, l2Store, caLaw, caLast, tcCall, l2Given>>

pmVars == <<pmCache, pmLast>>

hcVars == <<hcNow, hcChecks, hcRun, hcLast>>

lcVars == <<lcProgram, lcEnv, lcMain, lcLog, lcInflight, lcCtxDone, lcSweeper>>

gbVars == <<gbMap, gbLock, gbProc, gbHist>>

ibVars == <<ibNow, ibBreakers, ibFailed, ibLast>>

swVars == <<swNow, swLimiters, swLock, swCall, swSweeper, swTouched>>

mgVars == <<mgGauge, mgReq, mgTotal, mgArrived, mgEnded>>

vars ==
    <<cbNow, breakers, calls, last, rlNow, limiters, rlLast, glMap, glProc, glHist,
      auNow, tokCache, authValid, auReq, auLast, auHist, pxEnv, pxReq, pxRun,
      plMetrics, plReq, plGen,
      caNow, l1Store, l1Buf, l2Store, caLaw, caLast, tcCall, l2Given,
      pmCache, pmLast,
      hcNow, hcChecks, hcRun, hcLast,
      lcProgram, lcEnv, lcMain, lcLog, lcInflight, lcCtxDone, lcSweeper,
      gbMap, gbLock, gbProc, gbHist,
      ibNow, ibBreakers, ibFailed, ibLast,
      swNow, swLimiters, swLock, swCall, swSweeper, swTouched,
      mgGauge, mgReq, mgTotal, mgArrived, mgEnded>>

----------------------------------------------------------------------------
(* Bounds of the breaker model *)

\* last clock value explored
MaxTime == 4
\* cap on counts.Requests of one generation (keeps the counters finite)
MaxCount == 4

Names == {"user"}
Procs == 1 .. 4

----------------------------------------------------------------------------
(* Settings given to gobreaker in GetBreaker; time unit = 30 s *)

\* mutant: one probe more than configured
MaxRequests_Four == 3 + 1

\* MaxRequests: 3
MaxRequests == 3
\* Interval: time.Minute
Interval == 2
\* Timeout: 30 * time.Second
Timeout == 1

NoBreaker == [state |-> "none"]

ZeroCounts ==
    [Requests |-> 0, TotalSuccesses |-> 0, TotalFailures |-> 0,
     ConsecutiveSuccesses |-> 0, ConsecutiveFailures |-> 0]

\* mutant: trips from two requests on
ReadyToTrip_TwoRequests(counts) ==
    counts.Requests >= 2 /\ 5 * counts.TotalFailures >= 3 * counts.Requests

\* ReadyToTrip: failureRatio := TotalFailures / Requests;
\* Requests >= 3 && failureRatio >= 0.6   (0.6 = 3/5, exact on small integers)
ReadyToTrip(counts) ==
    counts.Requests >= 3 /\ 5 * counts.TotalFailures >= 3 * counts.Requests

\* gobreaker toNewGeneration: generation++, counts cleared, expiry by state
toNewGeneration(b, now) ==
    [b EXCEPT !.generation = b.generation + 1,
              !.counts = ZeroCounts,
              !.expiry = CASE b.state = "closed" ->
                                  IF Interval = 0 THEN 0 ELSE now + Interval
                           [] b.state = "open" -> now + Timeout
                           [] OTHER -> 0]

\* gobreaker setState: no-op when the state is unchanged
setState(b, state, now) ==
    IF b.state = state THEN b
    ELSE toNewGeneration([b EXCEPT !.state = state], now)

\* mutant: the cooldown ends at expiry instead of after it
currentState_NonStrict(b, now) ==
    CASE b.state = "closed" /\ b.expiry # 0 /\ b.expiry < now ->
             toNewGeneration(b, now)
      [] b.state = "open" /\ b.expiry <= now ->
             setState(b, "halfopen", now)
      [] OTHER -> b

\* gobreaker currentState: the lazy transitions, taken when the breaker is touched
\* (expiry.Before(now) is strict)
currentState(b, now) ==
    CASE b.state = "closed" /\ b.expiry # 0 /\ b.expiry < now ->
             toNewGeneration(b, now)
      [] b.state = "open" /\ b.expiry < now ->
             setState(b, "halfopen", now)
      [] OTHER -> b

\* gobreaker.NewCircuitBreaker(settings): closed, first generation
NewBreaker(now) ==
    toNewGeneration([state |-> "closed", generation |-> 0,
                     counts |-> ZeroCounts, expiry |-> 0], now)

\* CircuitBreaker.GetBreaker: the breaker of name, created on first use
GetBreaker(name) ==
    IF breakers[name] = NoBreaker THEN NewBreaker(cbNow) ELSE breakers[name]

\* breaker.State(): the state an observer reads at time now
State(name, now) ==
    IF breakers[name] = NoBreaker THEN "none"
    ELSE currentState(breakers[name], now).state

\* gobreaker Counts.onRequest / onSuccess / onFailure
countsOnRequest(c) == [c EXCEPT !.Requests = @ + 1]

countsOnSuccess(c) ==
    [c EXCEPT !.TotalSuccesses = @ + 1, !.ConsecutiveSuccesses = @ + 1,
              !.ConsecutiveFailures = 0]

countsOnFailure(c) ==
    [c EXCEPT !.TotalFailures = @ + 1, !.ConsecutiveFailures = @ + 1,
              !.ConsecutiveSuccesses = 0]

\* mutant: the open state is not checked on admission
beforeRequest_OpenAdmits(b, now) ==
    LET c == currentState(b, now) IN
    IF c.state = "halfopen" /\ c.counts.Requests >= MaxRequests
    THEN [b |-> c, err |-> "ErrTooManyRequests"]
    ELSE [b |-> [c EXCEPT !.counts = countsOnRequest(@)], err |-> "nil"]

\* gobreaker beforeRequest: the admission decision, under the breaker's mutex
beforeRequest(b, now) ==
    LET c == currentState(b, now) IN
    IF c.state = "open" THEN [b |-> c, err |-> "ErrOpenState"]
    ELSE IF c.state = "halfopen" /\ c.counts.Requests >= MaxRequests
         THEN [b |-> c, err |-> "ErrTooManyRequests"]
         ELSE [b |-> [c EXCEPT !.counts = countsOnRequest(@)], err |-> "nil"]

\* mutant: the first successful probe closes the breaker
onSuccess_CloseOnFirst(b, now) ==
    CASE b.state = "closed" -> [b EXCEPT !.counts = countsOnSuccess(@)]
      [] b.state = "halfopen" ->
             setState([b EXCEPT !.counts = countsOnSuccess(@)], "closed", now)
      [] OTHER -> b

\* gobreaker onSuccess: in half-open, close after MaxRequests consecutive successes
onSuccess(b, now) ==
    CASE b.state = "closed" -> [b EXCEPT !.counts = countsOnSuccess(@)]
      [] b.state = "halfopen" ->
             LET c == [b EXCEPT !.counts = countsOnSuccess(@)] IN
             IF c.counts.ConsecutiveSuccesses >= MaxRequests
             THEN setState(c, "closed", now) ELSE c
      [] OTHER -> b

\* gobreaker onFailure: in closed, ask ReadyToTrip; in half-open, reopen
onFailure(b, now) ==
    CASE b.state = "closed" ->
             LET c == [b EXCEPT !.counts = countsOnFailure(@)] IN
             IF ReadyToTrip(c.counts) THEN setState(c, "open", now) ELSE c
      [] b.state = "halfopen" -> setState(b, "open", now)
      [] OTHER -> b

\* gobreaker afterRequest: a result of an older generation is dropped
afterRequest(b, before, success, now) ==
    LET c == currentState(b, now) IN
    IF c.generation # before THEN c
    ELSE IF success THEN onSuccess(c, now) ELSE onFailure(c, now)

----------------------------------------------------------------------------
(* Caller goroutines *)

IdleCall == [pc |-> "idle", name |-> "-", gen |-> 0]

\* no call made yet
NoCall ==
    [name |-> "-", kind |-> "-", ctx |-> "-", err |-> "-", invoked |-> FALSE,
     pre |-> NoBreaker, gen |-> 0, inflight |-> 0, at |-> 0, result |-> "nil"]

CbInit ==
    /\ cbNow = 1
    /\ breakers = [n \in Names |-> NoBreaker]
    /\ calls = [p \in Procs |-> IdleCall]
    /\ last = NoCall

\* calls of name whose fn is running
InFlight(name) == {q \in Procs : calls[q].pc = "running" /\ calls[q].name = name}

\* those of them that were admitted in the breaker's present generation
InFlightNow(name) ==
    IF breakers[name] = NoBreaker THEN {}
    ELSE {q \in InFlight(name) : calls[q].gen = breakers[name].generation}

\* idle goroutines are interchangeable: a new call is made by the first idle one
FirstIdle(p) ==
    /\ calls[p].pc = "idle"
    /\ \A q \in Procs : calls[q].pc = "idle" => ~(q < p)

\* what a caller meets on entry: the stored breaker and the calls in flight
Entered(name, kind, ctx) ==
    [NoCall EXCEPT !.name = name, !.kind = kind, !.ctx = ctx,
                   !.pre = breakers[name],
                   !.inflight = Cardinality(InFlightNow(name)),
                   !.at = cbNow]

\* cb.GetBreaker(name) and breaker.Execute(fn), up to the point where fn
\* starts or the breaker refuses
CbEnter(p, name, kind, ctx) ==
    /\ FirstIdle(p)
    /\ LET r == beforeRequest(GetBreaker(name), cbNow) IN
       /\ currentState(GetBreaker(name), cbNow).counts.Requests < MaxCount
       /\ breakers' = [breakers EXCEPT ![name] = r.b]
       /\ IF r.err = "nil"
          THEN /\ calls' = [calls EXCEPT ![p] =
                       [pc |-> "running", name |-> name, gen |-> r.b.generation]]
               /\ last' = [Entered(name, kind, ctx) EXCEPT
                               !.invoked = TRUE, !.gen = r.b.generation]
          ELSE /\ calls' = calls
               /\ last' = [Entered(name, kind, ctx) EXCEPT !.err = r.err]
    /\ UNCHANGED cbNow

\* Execute(name, fn) / ExecuteContext(ctx, name, fn) with a live ctx
CbExecute(p, name, kind) == CbEnter(p, name, kind, "live")

\* mutant: the context is not looked at
ShortCircuits_Never(ctx) == FALSE

\* select { case <-ctx.Done(): ... default: }
ShortCircuits(ctx) == ctx # "live"

\* ExecuteContext with ctx already done: return nil, ctx.Err() before GetBreaker
CbExecuteCtxDone(p, name, ctxErr) ==
    IF ShortCircuits(ctxErr)
    THEN /\ FirstIdle(p)
         /\ last' = [Entered(name, "ExecuteContext", ctxErr) EXCEPT !.err = ctxErr]
         /\ UNCHANGED <<cbNow, breakers, calls>>
    ELSE CbEnter(p, name, "ExecuteContext", ctxErr)

\* fn returns and breaker.Execute runs afterRequest; success is err == nil, and a
\* panic in fn is reported to the breaker as a failure before it propagates
CbFinish(p, success) ==
    /\ calls[p].pc = "running"
    /\ breakers' = [breakers EXCEPT ![calls[p].name] =
           afterRequest(@, calls[p].gen, success, cbNow)]
    /\ calls' = [calls EXCEPT ![p] = IdleCall]
    /\ last' = [Entered(calls[p].name, "finish", "live") EXCEPT
                   !.err = IF success THEN "nil" ELSE "fnError",
                   !.result = IF success THEN "fn's result" ELSE "nil",
                   !.invoked = TRUE, !.gen = calls[p].gen]
    /\ UNCHANGED cbNow

\* time passes
CbTick ==
    /\ cbNow < MaxTime
    /\ cbNow' = cbNow + 1
    /\ UNCHANGED <<breakers, calls, last>>

CbNext ==
    \/ \E p \in Procs, n \in Names, k \in {"Execute", "ExecuteContext"} :
           CbExecute(p, n, k)
    \/ \E p \in Procs, n \in Names, e \in {"Canceled", "DeadlineExceeded"} :
           CbExecuteCtxDone(p, n, e)
    \/ \E p \in Procs, ok \in BOOLEAN : CbFinish(p, ok)
    \/ CbTick

----------------------------------------------------------------------------
(* Circuit breaker claims.  last describes the most recent call step and      *)
(* breakers is the registry right after it (CbTick changes neither).          *)

\* the last step was a call arriving (Execute or ExecuteContext)
Arrival == last.kind \in {"Execute", "ExecuteContext"}

\* ... with a context that was not done
LiveArrival == Arrival /\ last.ctx = "live"

\* the last step was fn returning and its result being reported to the breaker
Completion == last.kind = "finish"

\* the arriving call found the breaker open with the cooldown still running
MetOpen == Arrival /\ last.pre.state = "open" /\ last.at <= last.pre.expiry

\* C1 as stated: every call that meets an OPEN breaker returns the open-state
\* error and its fn is not invoked
C1_Original ==
    MetOpen => (last.err = "ErrOpenState" /\ ~last.invoked)

\* C1 (amended): while the breaker is OPEN and the cooldown has not elapsed, no
\* call invokes fn and the breaker is left as it was; Execute, and ExecuteContext
\* with a live context, return ErrOpenState, while ExecuteContext with a context
\* that is already done returns that context's error
C1_OpenFailsFast ==
    MetOpen =>
        /\ ~last.invoked
        /\ last.err = (IF last.ctx = "live" THEN "ErrOpenState" ELSE last.ctx)
        /\ breakers[last.name] = last.pre

C1_Witness ==
    MetOpen /\ last.kind = "Execute" /\ last.err = "ErrOpenState" /\ ~last.invoked

\* the completing call is counted: closed breaker, same generation, interval running
CountedInClosed ==
    /\ Completion
    /\ last.pre.state = "closed"
    /\ last.gen = last.pre.generation
    /\ ~(last.pre.expiry # 0 /\ last.pre.expiry < last.at)

\* the counters with the failure just reported satisfy the trip condition
TripCondition ==
    /\ last.pre.counts.Requests >= 3
    /\ 5 * (last.pre.counts.TotalFailures + 1) >= 3 * last.pre.counts.Requests

\* C2 as stated: a CLOSED breaker whose counters satisfy requests >= 3 and
\* failures/requests >= 0.6 has opened, and 2 failures with 0 successes leave it closed
C2_Original ==
    \A n \in Names :
        breakers[n].state = "closed" =>
            /\ ~(breakers[n].counts.Requests >= 3
                 /\ 5 * breakers[n].counts.TotalFailures >= 3 * breakers[n].counts.Requests)
            /\ (breakers[n].counts.TotalSuccesses = 0 => breakers[n].counts.TotalFailures <= 2)

\* C2 (amended): a CLOSED breaker opens exactly when a call of the running
\* interval fails and the counters, with that failure and with the calls still in
\* flight counted as requests, satisfy requests >= 3 and failures/requests >= 0.6;
\* it never opens on fewer than 3 requests, and when calls are made one at a time
\* two failures leave it closed
C2_TripOnFailure ==
    /\ (last.pre.state = "closed" /\ breakers[last.name].state = "open")
           => (CountedInClosed /\ last.err = "fnError" /\ TripCondition)
    /\ (CountedInClosed /\ last.err = "fnError" /\ TripCondition)
           => breakers[last.name].state = "open"
    /\ \A n \in Names :
           (breakers[n].state = "closed" /\ InFlight(n) = {}
                /\ breakers[n].counts.TotalSuccesses = 0)
               => breakers[n].counts.TotalFailures <= 2

C2_Witness ==
    /\ CountedInClosed /\ last.err = "fnError"
    /\ last.pre.counts.Requests = 3 /\ last.pre.counts.TotalFailures = 2
    /\ breakers[last.name].state = "open"

\* a probe: a call admitted in the present half-open generation reports its result
ProbeResult ==
    /\ Completion
    /\ last.pre.state = "halfopen"
    /\ last.gen = last.pre.generation

\* C3 as stated: a probe that succeeds closes the breaker, a probe that fails
\* reopens it with the cooldown restarted
C3_Original ==
    ProbeResult =>
        IF last.err = "nil" THEN breakers[last.name].state = "closed"
        ELSE /\ breakers[last.name].state = "open"
             /\ breakers[last.name].expiry = last.at + Timeout

\* C3 (amended): from HALF_OPEN the breaker closes on the third consecutive
\* successful probe (MaxRequests = 3) and stays HALF_OPEN on the first two; the
\* first probe that fails reopens it with the counters cleared and the cooldown
\* restarted from that instant
C3_HalfOpenExit ==
    ProbeResult =>
        IF last.err = "nil"
        THEN IF last.pre.counts.ConsecutiveSuccesses + 1 >= 3
             THEN /\ breakers[last.name].state = "closed"
                  /\ breakers[last.name].counts = ZeroCounts
             ELSE /\ breakers[last.name].state = "halfopen"
                  /\ breakers[last.name].generation = last.pre.generation
        ELSE /\ breakers[last.name].state = "open"
             /\ breakers[last.name].expiry = last.at + Timeout
             /\ breakers[last.name].counts = ZeroCounts

C3_Witness ==
    /\ ProbeResult /\ last.err = "nil"
    /\ last.pre.counts.ConsecutiveSuccesses = 2
    /\ breakers[last.name].state = "closed"

\* the arriving call found the breaker half-open (or made it so)
MetHalfOpen == LiveArrival /\ breakers[last.name].state = "halfopen"

\* requests already admitted in the half-open generation the call arrived in
ProbesBefore ==
    IF last.pre.state = "halfopen" THEN last.pre.counts.Requests ELSE 0

\* C4 as stated: at most 3 probes run concurrently and a call arriving while 3
\* are in flight is refused with the open-state error
C4_Original ==
    /\ \A n \in Names :
           breakers[n].state = "halfopen" => Cardinality(InFlightNow(n)) <= 3
    /\ (MetHalfOpen /\ last.inflight = 3)
           => (last.err = "ErrOpenState" /\ ~last.invoked)

\* C4 (amended): while HALF_OPEN at most 3 probes are in flight; the first 3
\* calls of a half-open period are admitted and every further call, in
\* particular a 4th arriving while 3 are in flight, is refused with
\* ErrTooManyRequests (not the open-state error) without invoking its function
C4_HalfOpenLimit ==
    /\ \A n \in Names :
           breakers[n].state = "halfopen" => Cardinality(InFlightNow(n)) <= 3
    /\ MetHalfOpen =>
           IF ProbesBefore < 3
           THEN last.invoked /\ last.gen = breakers[last.name].generation
           ELSE ~last.invoked /\ last.err = "ErrTooManyRequests"

C4_Witness ==
    MetHalfOpen /\ last.inflight = 3 /\ last.err = "ErrTooManyRequests"

\* C5 as stated: a call that meets an OPEN breaker is admitted exactly when
\* now - openedAt >= Timeout (openedAt = expiry - Timeout)
C5_Original ==
    (LiveArrival /\ last.pre.state = "open")
        => (last.invoked <=> last.at - (last.pre.expiry - Timeout) >= Timeout)

\* C5 (amended): an OPEN breaker becomes HALF_OPEN exactly when
\* now - openedAt > Timeout, strictly: a call made up to and including
\* openedAt + Timeout is refused, and the first call made after that instant is
\* admitted as the first probe
C5_CooldownStrict ==
    /\ (LiveArrival /\ last.pre.state = "open")
           => /\ last.invoked <=> last.at > last.pre.expiry
              /\ last.invoked =>
                     /\ breakers[last.name].state = "halfopen"
                     /\ breakers[last.name].counts.Requests = 1
    /\ \A n \in Names :
           breakers[n].state = "open"
               => (State(n, cbNow) = "halfopen" <=> cbNow > breakers[n].expiry)

C5_Witness ==
    /\ LiveArrival /\ last.pre.state = "open"
    /\ last.at = last.pre.expiry + 1
    /\ last.invoked /\ breakers[last.name].state = "halfopen"

\* C33: ExecuteContext called with a context that is already cancelled or
\* past its deadline returns a nil result and the context's error, fn is not
\* invoked, and the breaker of the name is left as it was.
C33_DoneContextShortCircuits ==
    (last.kind = "ExecuteContext" /\ last.ctx \in {"Canceled", "DeadlineExceeded"}) =>
        /\ last.err = last.ctx
        /\ last.result = "nil"
        /\ ~last.invoked
        /\ breakers[last.name] = last.pre

\* a call with a context past its deadline meets a closed breaker that has
\* counted requests
C33_Witness ==
    /\ last.kind = "ExecuteContext" /\ last.ctx = "DeadlineExceeded"
    /\ last.pre # NoBreaker /\ last.pre.state = "closed"
    /\ last.pre.counts.Requests > 0
    /\ last.err = "DeadlineExceeded"

----------------------------------------------------------------------------
(* Rate limiter: internal/middleware/rate_limit.go over golang.org/x/time/rate. *)
(* Tokens are counted in units of 1/TokenUnit token so that the refill of one   *)
(* tick is a whole number; the horizon is a few seconds, far below the 10       *)
(* minutes after which the sweeper first runs.                                  *)

\* burst given to NewRateLimiter
Burst == 2
\* token units per token
TokenUnit == 2
\* token units refilled per tick (rate R = RefillPerTick * TicksPerSecond / TokenUnit)
RefillPerTick == 1
\* ticks per second
TicksPerSecond == 4
\* last clock value explored
RlMaxTime == 4

\* the requests explored, as <<X-Tenant-ID header ("" = absent), c.ClientIP()>>:
\* one client with and without a tenant header, and a second client whose
\* address reads like the first one's tenant and address joined
Clients == {<<"", "db8::1">>, <<"2001", "db8::1">>, <<"", "2001:db8::1">>}

NoEntry == [tokens |-> -1]

Min(a, b) == IF a < b THEN a ELSE b

\* mutant: the key ignores the tenant header
ComposeKey_IpOnly(tenant, ip) == ip

\* RateLimitMiddleware: key := c.ClientIP(); if tenantID != "" { key = tenantID + ":" + key }
ComposeKey(tenant, ip) == IF tenant = "" THEN ip ELSE tenant \o ":" \o ip

KeySpace == {ComposeKey(c[1], c[2]) : c \in Clients}

\* mutant: the refill is not capped at the burst
advance_NoCap(l, now) ==
    l.tokens + (now - (IF now < l.last THEN now ELSE l.last)) * RefillPerTick

\* rate.Limiter.advance: tokens at time now = stored tokens + elapsed * rate, capped at burst
advance(l, now) ==
    Min(Burst * TokenUnit,
        l.tokens + (now - (IF now < l.last THEN now ELSE l.last)) * RefillPerTick)

\* mutant: a call is still admitted when the bucket is one token short
Allow_OneShort(l, now) ==
    LET tokens == advance(l, now) - TokenUnit IN
    IF 1 <= Burst /\ tokens >= 0 - TokenUnit
    THEN [l |-> [l EXCEPT !.tokens = tokens, !.last = now], ok |-> TRUE]
    ELSE [l |-> l, ok |-> FALSE]

\* rate.Limiter.Allow = reserveN(now, 1, 0): take one token if one is there;
\* a refused call leaves tokens and last untouched
Allow(l, now) ==
    LET tokens == advance(l, now) - TokenUnit IN
    IF 1 <= Burst /\ tokens >= 0
    THEN [l |-> [l EXCEPT !.tokens = tokens, !.last = now], ok |-> TRUE]
    ELSE [l |-> l, ok |-> FALSE]

\* RateLimiter.GetLimiter: the entry of key with lastAccess refreshed, created
\* full on first reference (created and seen are history fields: when the bucket
\* was made and how many requests it has met, counted up to Burst + 1)
GetLimiter(key) ==
    IF limiters[key] # NoEntry
    THEN [limiters[key] EXCEPT !.lastAccess = rlNow]
    ELSE [tokens |-> Burst * TokenUnit, last |-> 0, lastAccess |-> rlNow,
          created |-> rlNow, seen |-> 0]

\* mutant: the rejection does not abort the chain, which then goes on to the handler
Reject_NoAbort ==
    [status |-> 429, body |-> "{\"error\":\"Rate limit exceeded\"}",
     aborted |-> FALSE, ran |-> <<"RateLimit", "Handler">>]

\* gin: what the chain has done once the rate-limit stage and what follows it returned
\* c.JSON(429, {"error": ...}); c.Abort(); return
Reject ==
    [status |-> 429, body |-> "{\"error\":\"Rate limit exceeded\"}",
     aborted |-> TRUE, ran |-> <<"RateLimit">>]

\* c.Next(): the rest of the chain runs and answers
PassOn ==
    [status |-> 200, body |-> "upstream", aborted |-> FALSE,
     ran |-> <<"RateLimit", "Handler">>]

\* the remote addresses of the requests explored
Ips == {c[2] : c \in Clients}

NoneAdmitted == [i \in Ips |-> 0]

\* admitted is a history field: the requests of each remote address admitted
\* at the instant at
NoRequest ==
    [tenant |-> "-", ip |-> "-", key |-> "-", at |-> 0, answered |-> 0,
     ok |-> FALSE, pre |-> NoEntry, resp |-> [status |-> 0],
     admitted |-> NoneAdmitted]

RlInit ==
    /\ rlNow = 1
    /\ limiters = [k \in KeySpace |-> NoEntry]
    /\ rlLast = NoRequest

\* one request through the handler returned by RateLimitMiddleware
RlRequest(tenant, ip) ==
    LET key == ComposeKey(tenant, ip)
        r == Allow(GetLimiter(key), rlNow)
        sofar == IF rlLast.at = rlNow THEN rlLast.admitted ELSE NoneAdmitted
    IN  /\ limiters' = [limiters EXCEPT ![key] =
               [r.l EXCEPT !.seen = Min(@ + 1, Burst + 1)]]
        /\ rlLast' = [tenant |-> tenant, ip |-> ip, key |-> key, at |-> rlNow,
                      answered |-> rlNow, ok |-> r.ok, pre |-> limiters[key],
                      resp |-> IF r.ok THEN PassOn ELSE Reject,
                      admitted |-> IF r.ok THEN [sofar EXCEPT ![ip] = @ + 1]
                                   ELSE sofar]
        /\ UNCHANGED rlNow

RlTick ==
    /\ rlNow < RlMaxTime
    /\ rlNow' = rlNow + 1
    /\ UNCHANGED <<limiters, rlLast>>

RlNext ==
    \/ \E c \in Clients : RlRequest(c[1], c[2])
    \/ RlTick

----------------------------------------------------------------------------
(* Rate limiter claims.  rlLast describes the most recent request, rlLast.pre *)
(* the entry of its key before it and limiters the registry right after it.   *)

Requested == rlLast.key # "-"

\* the bucket the last request used, as it was before the request
BucketBefore ==
    IF rlLast.pre = NoEntry
    THEN [tokens |-> Burst * TokenUnit, last |-> 0, seen |-> 0,
          created |-> rlLast.at]
    ELSE rlLast.pre

\* whole tokens were available to the last request
HadToken ==
    \/ BucketBefore.tokens + (rlLast.at - BucketBefore.last) * RefillPerTick >= TokenUnit
    \/ Burst * TokenUnit < TokenUnit

\* C6: the token count of every bucket, as stored and as seen at any later
\* instant, lies within [0, B]
C6_TokensWithinBurst ==
    \A k \in KeySpace :
        limiters[k] # NoEntry =>
            /\ 0 <= limiters[k].tokens
            /\ limiters[k].tokens <= Burst * TokenUnit
            /\ 0 <= advance(limiters[k], rlNow)
            /\ advance(limiters[k], rlNow) <= Burst * TokenUnit

\* a used bucket whose refill since the last admission exceeds what the burst leaves room for
C6_Witness ==
    \E k \in KeySpace :
        /\ limiters[k] # NoEntry
        /\ limiters[k].last # 0
        /\ limiters[k].tokens + (rlNow - limiters[k].last) * RefillPerTick
               > Burst * TokenUnit

\* C7 as stated: on a fresh key the first B requests made within one second are
\* admitted and the (B+1)-th made within that second is rejected
C7_Original ==
    (Requested /\ rlLast.at - BucketBefore.created < TicksPerSecond) =>
        /\ BucketBefore.seen < Burst => rlLast.ok
        /\ BucketBefore.seen = Burst => ~rlLast.ok

\* C7 (amended): on a fresh key the first B requests are admitted, and the
\* (B+1)-th is rejected when it comes before one token has been refilled, that
\* is less than 1/R seconds after the first; within one second it is admitted
\* as soon as elapsed * R >= 1
C7_BurstThenRefill ==
    Requested =>
        /\ BucketBefore.seen < Burst => rlLast.ok
        /\ (BucketBefore.seen = Burst
               /\ (rlLast.at - BucketBefore.created) * RefillPerTick < TokenUnit)
              => ~rlLast.ok

C7_Witness ==
    /\ Requested
    /\ BucketBefore.seen = Burst
    /\ rlLast.at > BucketBefore.created
    /\ ~rlLast.ok

\* the stages that ran for the last request
RanHandler == \E j \in DOMAIN rlLast.resp.ran : rlLast.resp.ran[j] = "Handler"

\* C8: the request reaches the next stage exactly when its bucket had a token;
\* otherwise it is answered at once with 429 and {"error":"Rate limit exceeded"},
\* the chain is aborted and no later stage runs
C8_RejectIs429 ==
    Requested =>
        /\ RanHandler <=> HadToken
        /\ rlLast.answered = rlLast.at
        /\ ~HadToken =>
               /\ rlLast.resp.status = 429
               /\ rlLast.resp.body = "{\"error\":\"Rate limit exceeded\"}"
               /\ rlLast.resp.aborted
               /\ rlLast.resp.ran = <<"RateLimit">>

C8_Witness ==
    Requested /\ ~HadToken /\ rlLast.resp.status = 429 /\ ~RanHandler

\* what one request may change: the entry of its own key, nothing else
C9_Step ==
    \A c \in Clients :
        (rlLast' # rlLast /\ rlLast'.tenant = c[1] /\ rlLast'.ip = c[2]) =>
            LET key == IF c[1] = "" THEN c[2] ELSE c[1] \o ":" \o c[2] IN
            /\ rlLast'.key = key
            /\ \A k \in KeySpace \ {key} : limiters'[k] = limiters[k]
            /\ limiters'[key] # NoEntry
            /\ limiters'[key].lastAccess = rlNow

C40_BurstPerIp ==
    \A i \in Ips : rlLast.admitted[i] <= Burst

----------------------------------------------------------------------------
(* GetLimiter step by step, one step per critical section of rl.mu, in its    *)
(* two variants: "checked" is internal/middleware/rate_limit.go, which looks  *)
(* the key up again under the write lock; "unchecked" is the variant whose    *)
(* one-argument RateLimitMiddleware(rl) cmd/main.go and the tests call, which *)
(* inserts without looking again.  Each variant has its own registry.  A      *)
(* limiter is named by the number of its creation; no sweep happens here.     *)

Variants == {"checked", "unchecked"}
GlKeys == {"k1", "k2"}
GlProcs == 1 .. 2

\* limiters[key] is absent
Absent == [lim |-> 0, lastAccess |-> 0]

GlIdle == [pc |-> "idle", v |-> "-", key |-> "-", entry |-> Absent, ret |-> 0]

GlInit ==
    /\ glMap = [v \in Variants |-> [k \in GlKeys |-> Absent]]
    /\ glProc = [p \in GlProcs |-> GlIdle]
    /\ glHist = [v \in Variants |-> [k \in GlKeys |-> [created |-> 0, returned |-> {}]]]

\* the goroutine returns limiter id for its key
GlReturned(p, id) ==
    glHist' = [glHist EXCEPT ![glProc[p].v][glProc[p].key].returned = @ \cup {id}]

\* rate.NewLimiter + rl.limiters[key] = &limiterEntry{...}
GlCreate(p) ==
    LET v == glProc[p].v
        k == glProc[p].key
        id == glHist[v][k].created + 1
    IN  /\ glMap' = [glMap EXCEPT ![v][k] = [lim |-> id, lastAccess |-> rlNow]]
        /\ glHist' = [glHist EXCEPT ![v][k].created = id,
                                    ![v][k].returned = @ \cup {id}]
        /\ glProc' = [glProc EXCEPT ![p].pc = "done", ![p].ret = id]

\* a goroutine calls GetLimiter(key)
GlCall(p, v, k) ==
    /\ glProc[p].pc \in {"idle", "done"}
    /\ glProc' = [glProc EXCEPT ![p] = [GlIdle EXCEPT !.pc = "lookup", !.v = v, !.key = k]]
    /\ UNCHANGED <<glMap, glHist>>

\* both variants: RLock; entry, exists := rl.limiters[key]; RUnlock
GlLookup(p) ==
    /\ glProc[p].pc = "lookup"
    /\ LET e == glMap[glProc[p].v][glProc[p].key] IN
       glProc' = [glProc EXCEPT ![p].entry = e,
                                ![p].pc = IF e # Absent THEN "touch" ELSE "insert"]
    /\ UNCHANGED <<glMap, glHist>>

\* rate_limit.go, if exists: Lock; look again; refresh lastAccess and return, or
\* fall through to the insert
GlTouchChecked(p) ==
    /\ glProc[p].pc = "touch" /\ glProc[p].v = "checked"
    /\ LET v == glProc[p].v
           k == glProc[p].key
       IN  IF glMap[v][k] # Absent
           THEN /\ glMap' = [glMap EXCEPT ![v][k].lastAccess = rlNow]
                /\ glProc' = [glProc EXCEPT ![p].pc = "done", ![p].ret = glMap[v][k].lim]
                /\ GlReturned(p, glMap[v][k].lim)
           ELSE /\ glProc' = [glProc EXCEPT ![p].pc = "insert"]
                /\ UNCHANGED <<glMap, glHist>>

\* rate_limit.go: Lock; double-check; return the entry found or create one
GlInsertChecked(p) ==
    /\ glProc[p].pc = "insert" /\ glProc[p].v = "checked"
    /\ LET v == glProc[p].v
           k == glProc[p].key
       IN  IF glMap[v][k] # Absent
           THEN /\ glMap' = [glMap EXCEPT ![v][k].lastAccess = rlNow]
                /\ glProc' = [glProc EXCEPT ![p].pc = "done", ![p].ret = glMap[v][k].lim]
                /\ GlReturned(p, glMap[v][k].lim)
           ELSE GlCreate(p)

\* the other variant, if exists: Lock; entry.lastAccess = now; Unlock; return
\* entry.limiter, entry being the pointer read at the lookup
GlTouchUnchecked(p) ==
    /\ glProc[p].pc = "touch" /\ glProc[p].v = "unchecked"
    /\ LET v == glProc[p].v
           k == glProc[p].key
       IN  /\ glMap' = IF glMap[v][k].lim = glProc[p].entry.lim
                       THEN [glMap EXCEPT ![v][k].lastAccess = rlNow]
                       ELSE glMap
           /\ glProc' = [glProc EXCEPT ![p].pc = "done", ![p].ret = glProc[p].entry.lim]
           /\ GlReturned(p, glProc[p].entry.lim)

\* the other variant, not exists: Lock; create and store without looking again
GlInsertUnchecked(p) ==
    /\ glProc[p].pc = "insert" /\ glProc[p].v = "unchecked"
    /\ GlCreate(p)

GlNext ==
    \/ \E p \in GlProcs, v \in Variants, k \in GlKeys : GlCall(p, v, k)
    \/ \E p \in GlProcs : GlLookup(p)
    \/ \E p \in GlProcs : GlTouchChecked(p)
    \/ \E p \in GlProcs : GlInsertChecked(p)
    \/ \E p \in GlProcs : GlTouchUnchecked(p)
    \/ \E p \in GlProcs : GlInsertUnchecked(p)

\* C10: whatever the interleaving of GetLimiter calls, one limiter is created
\* per key and every call for the key returns that limiter
C10_OneLimiterPerKey ==
    \A v \in Variants, k \in GlKeys :
        /\ glHist[v][k].created <= 1
        /\ Cardinality(glHist[v][k].returned) <= 1

\* the same, of the variant that looks the key up again under the write lock
C10_CheckedVariant ==
    \A k \in GlKeys :
        /\ glHist["checked"][k].created <= 1
        /\ Cardinality(glHist["checked"][k].returned) <= 1

----------------------------------------------------------------------------
(* Authenticate stage: internal/middleware/auth.go over the verified-token    *)
(* cache and the Auth collaborator.  Time unit = 15 min.  A request is a      *)
(* goroutine; the cache read, the VerifyToken call and the cache write are    *)
(* its suspension points.                                                     *)

\* last clock value explored
AuMaxTime == 3

\* tieredCache.Set(ctx, cacheKey, apiResp, 30*time.Minute)
TokenTTL == 2

AuProcs == 1 .. 2

\* the opaque token presented, issued by Auth and valid there until it is revoked
Opaque == {"tokA"}
Issued == {"tokA"}

\* Authorization header values as the fields strings.Split(authHeader, " ")
\* yields; <<>> stands for the absent (empty) header
AuthHeaders ==
    {<<>>, <<"Basic", "tokA">>, <<"Bearer">>, <<"Bearer", "tokA">>}

\* the X-Tenant-ID / X-Internal-Token values the client put on the request
\* (http.Header: each name holds a list of values)
ClientHeaders ==
    {[XTenantID |-> <<>>, XInternalToken |-> <<>>],
     [XTenantID |-> <<"tenant-evil">>, XInternalToken |-> <<"forged">>]}

\* routes behind AuthMiddleware: a proxied API call and POST .../auth/logout
AuRoutes == {"api", "logout"}

\* VerifyTokenResponse: the zero value a failed cache read leaves in resp
ZeroResponse ==
    [Valid |-> FALSE, UserId |-> "", TenantId |-> "", Email |-> "",
     Roles |-> "", Permissions |-> ""]

\* the record Auth holds for an issued token
TokenRecord(t) ==
    [Valid |-> TRUE, UserId |-> "user-of-" \o t, TenantId |-> "tenant-of-" \o t,
     Email |-> t \o "@example.com", Roles |-> "user", Permissions |-> "read,write"]

\* AuthClient.VerifyToken: Auth answers for the token as it stands there now,
\* or the call fails (outcome "error"); the body kept in the source is a
\* development stub, the call it stands for is what is modelled
VerifyToken(t, valid, outcome) ==
    IF outcome = "error" THEN [err |-> "rpc error", resp |-> ZeroResponse]
    ELSE IF t \in valid THEN [err |-> "nil", resp |-> TokenRecord(t)]
         ELSE [err |-> "nil", resp |-> ZeroResponse]

\* cacheKey := "token:" + opaqueToken
CacheKey(t) == "token:" \o t

CacheKeys == {CacheKey(t) : t \in Opaque}

NoCached == [expires |-> 0, rec |-> ZeroResponse]

\* tieredCache.Get(ctx, key, &resp): the stored record while it has not expired;
\* a miss, an expired entry and a failing cache all return an error
CacheGet(cache, key, now, up) ==
    IF up /\ cache[key] # NoCached /\ now < cache[key].expires
    THEN [err |-> "nil", resp |-> cache[key].rec]
    ELSE [err |-> "miss", resp |-> ZeroResponse]

\* mutant: the record is stored without its time to live
CacheSet_NoTtl(cache, key, value, ttl, now, up) ==
    IF up THEN [cache EXCEPT ![key] = [expires |-> now, rec |-> value]]
    ELSE cache

\* tieredCache.Set(ctx, key, value, ttl): stores with expiry now + ttl, or fails
\* and stores nothing
CacheSet(cache, key, value, ttl, now, up) ==
    IF up THEN [cache EXCEPT ![key] = [expires |-> now + ttl, rec |-> value]]
    ELSE cache

\* jwtManager.GenerateToken(userID, tenantID, email, roles, permissions): the
\* internal token, written as the claims it is signed over
GenerateToken(userID, tenantID, email, roles, permissions) ==
    "jwt(" \o userID \o "|" \o tenantID \o "|" \o email \o "|" \o roles
           \o "|" \o permissions \o ")"

\* mutant: the headers are added to what the client sent instead of replacing it
injectHeaders_Add(hdr, resp) ==
    [XTenantID |-> Append(hdr.XTenantID, resp.TenantId),
     XInternalToken |-> Append(hdr.XInternalToken,
         GenerateToken(resp.UserId, resp.TenantId, resp.Email, resp.Roles,
                       resp.Permissions))]

\* injectHeaders: Header.Set replaces every value the request carried
injectHeaders(hdr, resp) ==
    [XTenantID |-> <<resp.TenantId>>,
     XInternalToken |-> <<GenerateToken(resp.UserId, resp.TenantId, resp.Email,
                                        resp.Roles, resp.Permissions)>>]

\* mutant: a response is refused only when the call failed and it is not valid
VerifyRejected_Both(v) == v.err # "nil" /\ ~v.resp.Valid

\* if err != nil || !apiResp.Valid
VerifyRejected(v) == v.err # "nil" \/ ~v.resp.Valid

\* if err == nil && resp.Valid
CacheHit(g) == g.err = "nil" /\ g.resp.Valid

NoClient == [XTenantID |-> <<>>, XInternalToken |-> <<>>]

\* a request goroutine between its suspension points
AuIdle ==
    [pc |-> "idle", tok |-> "-", client |-> NoClient, route |-> "-",
     resp |-> ZeroResponse, verdict |-> "-", afterLogout |-> FALSE]

\* no request yet
AuNoRequest ==
    [kind |-> "-", header |-> <<>>, tok |-> "-", client |-> NoClient,
     route |-> "-", at |-> 0, status |-> 0, body |-> "-", served |-> "-",
     handler |-> FALSE, fwd |-> NoClient, pre |-> NoCached, cacheUp |-> FALSE,
     afterLogout |-> FALSE, afterPass |-> FALSE, afterStore |-> FALSE,
     afterReject |-> FALSE, verdict |-> "-"]

NoHistory ==
    [reverified |-> {},
     verifiedOk |-> {},
     minted |-> {},
     passedAt |-> [t \in Opaque |-> 0],
     storedAt |-> [t \in Opaque |-> 0],
     revoked |-> {},
     rejected |-> {},
     fwdSeen |-> [t \in Opaque |-> {}]]

AuInit ==
    /\ auNow = 1
    /\ tokCache = [k \in CacheKeys |-> NoCached]
    /\ authValid = Issued
    /\ auReq = [p \in AuProcs |-> AuIdle]
    /\ auLast = AuNoRequest
    /\ auHist = NoHistory

\* idle goroutines are interchangeable: a new request is served by the first idle one
AuFirstIdle(p) ==
    /\ auReq[p].pc = "idle"
    /\ \A q \in AuProcs : auReq[q].pc = "idle" => ~(q < p)

\* what is known of a request when it arrives
AuArrived(header, client, route, cacheUp) ==
    LET tok == IF Len(header) >= 2 THEN header[2] ELSE "-" IN
    [AuNoRequest EXCEPT
        !.kind = "arrive", !.header = header, !.tok = tok,
        !.client = IF tok \in Opaque THEN client ELSE NoClient,
        !.route = route, !.at = auNow,
        !.cacheUp = cacheUp /\ Len(header) = 2 /\ header[1] = "Bearer",
        !.pre = IF tok \in Opaque THEN tokCache[CacheKey(tok)] ELSE NoCached,
        !.afterLogout = tok \in auHist.revoked,
        !.afterReject = tok \in auHist.rejected,
        !.afterPass = tok \in Opaque /\ auHist.passedAt[tok] # 0
                          /\ auNow - auHist.passedAt[tok] < TokenTTL,
        !.afterStore = tok \in Opaque /\ auHist.storedAt[tok] # 0
                          /\ auNow - auHist.storedAt[tok] < TokenTTL]

\* c.JSON(http.StatusUnauthorized, gin.H{"error": msg}); c.Abort(); return
Unauthorized(l, msg) ==
    [l EXCEPT !.status = 401, !.body = msg, !.handler = FALSE]

\* injectHeaders(c, resp, jwtManager); c.Next(): the internal token is minted,
\* the two headers are set and the route's handler runs.  The handler of an API
\* route forwards the request with these headers; Logout forwards to Auth,
\* which revokes the token (the upstream is taken to answer).
AuPassOn(l, resp, served, viaVerify, stored) ==
    LET fwd == injectHeaders(l.client, resp) IN
    /\ auLast' = [l EXCEPT !.status = 200, !.body = "upstream",
                           !.served = served, !.handler = TRUE, !.fwd = fwd]
    /\ authValid' = IF l.route = "logout" THEN authValid \ {l.tok}
                    ELSE authValid
    /\ auHist' = [auHist EXCEPT
           !.minted = @ \cup {l.tok},
           !.fwdSeen[l.tok] = @ \cup {fwd},
           !.passedAt[l.tok] = IF viaVerify THEN auNow ELSE @,
           !.storedAt[l.tok] = IF stored THEN auNow ELSE @,
           !.revoked = IF l.route = "logout" THEN @ \cup {l.tok} ELSE @]

\* AuthMiddleware up to its first suspension: the header checks and the cache read
AuArrive(p, header, client, route, cacheUp) ==
    /\ AuFirstIdle(p)
    /\ LET l == AuArrived(header, client, route, cacheUp) IN
       IF header = <<>>
       THEN /\ auLast' = Unauthorized(l, "Authorization header required")
            /\ UNCHANGED <<authValid, auReq, auHist>>
       ELSE IF Len(header) # 2 \/ header[1] # "Bearer"
       THEN /\ auLast' = Unauthorized(l, "Invalid authorization header format")
            /\ UNCHANGED <<authValid, auReq, auHist>>
       ELSE LET g == CacheGet(tokCache, CacheKey(header[2]), auNow, cacheUp) IN
            IF CacheHit(g)
            THEN /\ AuPassOn(l, g.resp, "cache", FALSE, FALSE)
                 /\ UNCHANGED auReq
            ELSE /\ auReq' = [auReq EXCEPT ![p] =
                        [AuIdle EXCEPT !.pc = "verify", !.tok = header[2],
                                       !.client = client, !.route = route,
                                       !.afterLogout = l.afterLogout]]
                 /\ auLast' = [l EXCEPT !.served = "miss"]
                 /\ UNCHANGED <<authValid, auHist>>
    /\ UNCHANGED <<auNow, tokCache>>

\* the request as it stands when it resumes
AuResumed(p, kind) ==
    [AuNoRequest EXCEPT
        !.kind = kind, !.header = <<"Bearer", auReq[p].tok>>,
        !.tok = auReq[p].tok, !.client = auReq[p].client,
        !.route = auReq[p].route, !.at = auNow,
        !.pre = tokCache[CacheKey(auReq[p].tok)],
        !.verdict = auReq[p].verdict,
        !.afterLogout = auReq[p].afterLogout]

\* what Auth said, whatever the middleware makes of it
Verdict(v) ==
    IF v.err # "nil" THEN "error" ELSE IF v.resp.Valid THEN "valid" ELSE "invalid"

\* authClient.VerifyToken returns
AuVerify(p, outcome) ==
    /\ auReq[p].pc = "verify"
    /\ LET v == VerifyToken(auReq[p].tok, authValid, outcome)
           l == [AuResumed(p, "verify") EXCEPT !.verdict = Verdict(v)]
       IN  /\ auHist' = [auHist EXCEPT
                   !.reverified = IF auReq[p].tok \in auHist.verifiedOk
                                  THEN @ \cup {auReq[p].tok} ELSE @,
                   !.verifiedOk = IF Verdict(v) = "valid"
                                  THEN @ \cup {auReq[p].tok} ELSE @,
                   !.rejected = IF Verdict(v) = "invalid"
                                THEN @ \cup {auReq[p].tok} ELSE @]
           /\ IF VerifyRejected(v)
              THEN /\ auLast' = Unauthorized(l, "Invalid or expired token")
                   /\ auReq' = [auReq EXCEPT ![p] = AuIdle]
              ELSE /\ auLast' = [l EXCEPT !.served = "auth"]
                   /\ auReq' = [auReq EXCEPT ![p].pc = "store", ![p].resp = v.resp,
                                             ![p].verdict = Verdict(v)]
    /\ UNCHANGED <<auNow, tokCache, authValid>>

\* _ = tieredCache.Set(...); injectHeaders(c, apiResp, jwtManager); c.Next()
AuStore(p, cacheUp) ==
    /\ auReq[p].pc = "store"
    /\ tokCache' = CacheSet(tokCache, CacheKey(auReq[p].tok), auReq[p].resp,
                            TokenTTL, auNow, cacheUp)
    /\ AuPassOn([AuResumed(p, "store") EXCEPT !.cacheUp = cacheUp],
                auReq[p].resp, "auth", TRUE, cacheUp)
    /\ auReq' = [auReq EXCEPT ![p] = AuIdle]
    /\ UNCHANGED auNow

\* time passes
AuTick ==
    /\ auNow < AuMaxTime
    /\ auNow' = auNow + 1
    /\ UNCHANGED <<tokCache, authValid, auReq, auLast, auHist>>

AuNext ==
    \/ \E p \in AuProcs, h \in AuthHeaders, c \in ClientHeaders, r \in AuRoutes,
          cacheUp \in BOOLEAN :
           AuArrive(p, h, c, r, cacheUp)
    \/ \E p \in AuProcs, o \in {"answer", "error"} : AuVerify(p, o)
    \/ \E p \in AuProcs, cacheUp \in BOOLEAN : AuStore(p, cacheUp)
    \/ AuTick

----------------------------------------------------------------------------
(* Authenticate claims.  auLast describes the most recent step of a request,  *)
(* auHist what has happened so far.                                           *)

\* the last step presented a well-formed "Bearer <token>" header
BearerForm == Len(auLast.header) = 2 /\ auLast.header[1] = "Bearer"

\* the last step ended a request (it was answered)
AuAnswered == auLast.status # 0

\* C11: the handler runs, a token is minted and headers are injected only for
\* a well-formed bearer token that Auth has found valid (now, or earlier with
\* the record still cached); a missing or malformed header and a failed
\* verification are answered 401 with nothing minted, injected or run
C11_VerifiedBeforePass ==
    /\ auLast.handler =>
           /\ BearerForm
           /\ \/ /\ auLast.served = "cache"
                 /\ auLast.cacheUp /\ auLast.pre.rec.Valid
                 /\ auLast.at < auLast.pre.expires
              \/ /\ auLast.served = "auth"
                 /\ auLast.verdict = "valid"
    /\ auHist.minted \subseteq auHist.verifiedOk
    /\ \A t \in Opaque : auHist.fwdSeen[t] # {} => t \in auHist.verifiedOk
    /\ (auLast.kind = "arrive" /\ ~BearerForm) => auLast.status = 401
    /\ (auLast.kind = "verify" /\ auLast.verdict # "valid") => auLast.status = 401
    /\ (AuAnswered /\ auLast.status # 401) => auLast.handler
    /\ auLast.status = 401 =>
           /\ ~auLast.handler
           /\ auLast.fwd = NoClient

\* Auth answered "not valid" for a token it had verified before, and the request got 401
C11_Witness ==
    /\ auLast.kind = "verify" /\ auLast.status = 401
    /\ auLast.tok \notin authValid
    /\ auHist.minted # {}

\* C12: the forwarded X-Tenant-ID and X-Internal-Token hold exactly one value
\* each, the tenant of the verified record and the internal token over the
\* record's claims; every request with the same bearer token is forwarded with
\* the same pair, whatever the client put in these headers
C12_HeadersFromRecord ==
    /\ auLast.handler =>
           LET r == TokenRecord(auLast.tok) IN
           /\ auLast.fwd.XTenantID = <<r.TenantId>>
           /\ auLast.fwd.XInternalToken =
                  <<GenerateToken(r.UserId, r.TenantId, r.Email, r.Roles, r.Permissions)>>
    /\ \A t \in Opaque :
           /\ Cardinality(auHist.fwdSeen[t]) <= 1
           /\ \A f \in auHist.fwdSeen[t] :
                  /\ \A i \in DOMAIN f.XTenantID : f.XTenantID[i] # "tenant-evil"
                  /\ \A i \in DOMAIN f.XInternalToken : f.XInternalToken[i] # "forged"

\* a request that came with both headers forged was served from the cache
C12_Witness ==
    /\ auLast.handler /\ auLast.served = "cache"
    /\ auLast.client.XTenantID = <<"tenant-evil">>
    /\ auLast.fwd.XTenantID = <<"tenant-of-tokA">>

\* C13 as stated: a request whose token passed the stage by verification less
\* than the TTL ago is served from the cache
C13_Original ==
    (auLast.kind = "arrive" /\ BearerForm /\ auLast.afterPass)
        => auLast.served = "cache"

\* C13 (amended): a request whose token was verified and stored in the cache
\* less than the TTL ago is served from the cache with the stored record and
\* without a VerifyToken call, provided the cache answers the read; when the
\* write of the first request failed (its error is discarded) or the read
\* fails, the request is verified against Auth again
C13_CacheHitWithinTtl ==
    (auLast.kind = "arrive" /\ BearerForm) =>
        /\ (auLast.afterStore /\ auLast.cacheUp) =>
               /\ auLast.served = "cache"
               /\ auLast.handler /\ AuAnswered
               /\ auLast.fwd.XTenantID = <<auLast.pre.rec.TenantId>>
        /\ ~auLast.cacheUp => auLast.served = "miss"
        /\ auLast.served = "cache" => auLast.pre.expires > auLast.at

\* the second request comes at a later time, within the TTL, and is served from the cache
C13_Witness ==
    /\ auLast.kind = "arrive" /\ BearerForm
    /\ auLast.afterStore /\ auLast.cacheUp /\ auLast.served = "cache"
    /\ auLast.at = auHist.storedAt[auLast.tok] + (TokenTTL - 1)
    /\ auLast.tok \in auHist.verifiedOk \ auHist.reverified

\* C14: a request presenting a token after a successful logout with that token
\* is answered 401
C14_RevokedIsRejected ==
    (auLast.afterLogout /\ AuAnswered) => auLast.status = 401

\* every record in the cache is the valid record VerifyToken returned for the
\* token of its key, and a step that answers 401 leaves the cache as it was
StoredAreVerified ==
    /\ \A t \in Opaque :
           tokCache[CacheKey(t)] # NoCached =>
               /\ tokCache[CacheKey(t)].rec.Valid
               /\ tokCache[CacheKey(t)].rec = TokenRecord(t)
               /\ t \in auHist.verifiedOk
    /\ (auLast.kind = "verify" /\ auLast.status = 401) =>
           tokCache[CacheKey(auLast.tok)] = auLast.pre

\* a request with a token that Auth has answered "not valid" for goes to
\* VerifyToken again
RejectedReverified ==
    (auLast.kind = "arrive" /\ BearerForm /\ auLast.afterReject)
        => auLast.served = "miss"

\* C38: every record stored under token:<t> is a result with Valid = TRUE that
\* VerifyToken returned for t; a failed or invalid verification stores
\* nothing, and a token Auth has rejected is verified with Auth again on
\* every request
C38_OnlyValidCached == StoredAreVerified /\ RejectedReverified

----------------------------------------------------------------------------
(* Reverse-proxy dispatcher: server/internal/handler/proxy.go behind the      *)
(* routes of SetupRoutes.  One request at a time; proxy.ServeHTTP is the      *)
(* suspension point, and its ErrorHandler calls handleFailover, which may     *)
(* call proxyRequest again.                                                   *)

\* cap on the proxyRequest calls made for one request
MaxDispatch == 3
\* ReadyToTrip: counts.Requests >= 3 (three failures in a row satisfy it)
TripRequests == 3

Services ==
    {"user", "user-ui", "file-service", "shop-service", "cms-service",
     "dashboard-service"}

\* the sets of services whose <NAME>_URL variable is set
Configs == {S \in SUBSET Services : {"user-ui", "file-service"} \subseteq S}

\* the requests explored: method and path segments
PxRequests ==
    {<<"GET", <<"api", "user", "profile">>>>,
     <<"GET", <<"page", "user", "home">>>>,
     <<"POST", <<"page", "user", "home">>>>,
     <<"GET", <<"upload", "k1">>>>,
     <<"GET", <<"about">>>>}

\* c.GetString("tenant_default_service") as the request arrives
TenantDefaults == {"", "shop-service"}

\* SetupRoutes: the handler gin selects.  /page is registered for GET only, and
\* a path that matches no route, or matches one for another method only, is
\* served by the NoRoute handler
Route(method, path) ==
    CASE Len(path) >= 3 /\ path[1] = "api" -> "APIProxy"
      [] Len(path) >= 2 /\ path[1] = "page" /\ method = "GET" -> "PageProxy"
      [] Len(path) >= 2 /\ path[1] = "upload" -> "UploadProxy"
      [] OTHER -> "SlugProxy"

\* getServiceURL: the URL from the environment, "" when the variable is not set
getServiceURL(env, serviceName) ==
    IF serviceName \in env THEN "http://" \o serviceName ELSE ""

\* mutant: the page service is looked up under the bare name
PageService_Bare(name) == name

\* PageProxy: h.getServiceURL(serviceName + "-ui")
PageService(name) == name \o "-ui"

\* SlugProxy: tenantDefault = "cms-service" // System fallback
SlugFallback == "cms-service"

\* handleFailover: systemDefault := "dashboard-service"
FailoverDefault == "dashboard-service"

\* url.QueryEscape of the reasons met: a space is written "+"
QueryEscape(words) ==
    IF Len(words) = 0 THEN ""
    ELSE LET RECURSIVE join(_)
             join(i) == IF i = Len(words) THEN words[i]
                        ELSE words[i] \o "+" \o join(i + 1)
         IN  join(1)

NoPxRequest ==
    [pc |-> "none", method |-> "-", path |-> <<>>, handler |-> "-",
     tenantDefault |-> "", chosen |-> "-", service |-> "-", target |-> "",
     arrivedDefault |-> "", dispatched |-> <<>>, contacted |-> <<>>,
     pastTrip |-> FALSE, status |-> 0, location |-> "-"]

\* proxyRequest(c, target) up to proxy.ServeHTTP
proxyRequest(r, service, target) ==
    [r EXCEPT !.pc = "proxy", !.service = service, !.target = target,
              !.dispatched = Append(@, service)]

\* handleFailover(c, originalErr): tenant default (cleared), then the system
\* default when it resolves, then the redirect to the login page
handleFailover(env, r, originalErr) ==
    IF r.tenantDefault # ""
    THEN proxyRequest([r EXCEPT !.tenantDefault = ""], r.tenantDefault,
                      getServiceURL(env, r.tenantDefault))
    ELSE IF getServiceURL(env, FailoverDefault) # ""
    THEN proxyRequest(r, FailoverDefault, getServiceURL(env, FailoverDefault))
    ELSE [r EXCEPT !.pc = "done", !.status = 302,
                   !.location = "/auth/login?error=" \o QueryEscape(originalErr)]

\* a handler: resolve the chosen service, proxy to it or fail over
Dispatch(env, r, service, notFound) ==
    LET q == [r EXCEPT !.chosen = service] IN
    IF getServiceURL(env, service) = ""
    THEN handleFailover(env, q, notFound)
    ELSE proxyRequest(q, service, getServiceURL(env, service))

\* the request as gin hands it to the handler
PxArrived(method, path, td) ==
    [NoPxRequest EXCEPT !.method = method, !.path = path,
                        !.handler = Route(method, path), !.tenantDefault = td,
                        !.arrivedDefault = td]

PxInit ==
    /\ pxEnv = {}
    /\ pxReq = NoPxRequest
    /\ pxRun = [service |-> "-", fails |-> 0]

PxIdle == pxReq.pc \in {"none", "done"}

\* the deployment sets the <SERVICE>_URL variables before the first request
Setenv(S) ==
    /\ pxReq.pc = "none" /\ pxEnv = {}
    /\ pxEnv' = S
    /\ UNCHANGED <<pxReq, pxRun>>

\* APIProxy: /api/:service/*path
APIProxy(method, path, td) ==
    /\ PxIdle /\ Route(method, path) = "APIProxy"
    /\ pxReq' = Dispatch(pxEnv, PxArrived(method, path, td), path[2],
                         <<"Service", "not", "found">>)
    /\ UNCHANGED <<pxEnv, pxRun>>

\* PageProxy: /page/service-name/page-path (a path routed here has the two
\* parts the handler asks for)
PageProxy(method, path, td) ==
    /\ PxIdle /\ Route(method, path) = "PageProxy"
    /\ pxReq' = Dispatch(pxEnv, PxArrived(method, path, td), PageService(path[2]),
                         <<"Page", "service", "not", "found">>)
    /\ UNCHANGED <<pxEnv, pxRun>>

\* UploadProxy: /upload/file-key
UploadProxy(method, path, td) ==
    /\ PxIdle /\ Route(method, path) = "UploadProxy"
    /\ pxReq' = Dispatch(pxEnv, PxArrived(method, path, td), "file-service",
                         <<"Upload", "service", "not", "found">>)
    /\ UNCHANGED <<pxEnv, pxRun>>

\* SlugProxy: any other path
SlugProxy(method, path, td) ==
    /\ PxIdle /\ Route(method, path) = "SlugProxy"
    /\ pxReq' = Dispatch(pxEnv, PxArrived(method, path, td),
                         IF td # "" THEN td ELSE SlugFallback,
                         <<"Slug", "handler", "not", "found">>)
    /\ UNCHANGED <<pxEnv, pxRun>>

\* proxy.ServeHTTP returns: the upstream answered, or the round trip failed and
\* the ErrorHandler calls handleFailover with err.Error().  An empty target
\* (unresolved tenant default) fails without contacting anything.
PxServe(ok) ==
    /\ pxReq.pc = "proxy"
    /\ ok => pxReq.target # ""
    /\ ~ok => Len(pxReq.dispatched) < MaxDispatch
    /\ LET r == IF pxReq.target # ""
                THEN [pxReq EXCEPT
                         !.contacted = Append(@, pxReq.service),
                         !.pastTrip = @ \/ (pxRun.service = pxReq.service
                                               /\ pxRun.fails >= TripRequests)]
                ELSE pxReq
       IN  /\ pxReq' = IF ok THEN [r EXCEPT !.pc = "done", !.status = 200]
                       ELSE handleFailover(pxEnv, r, <<"EOF">>)
           /\ pxRun' = IF pxReq.target = "" THEN pxRun
                       ELSE IF ok THEN [service |-> pxReq.service, fails |-> 0]
                       ELSE IF pxRun.service = pxReq.service
                            THEN [pxRun EXCEPT !.fails = Min(@ + 1, TripRequests)]
                            ELSE [service |-> pxReq.service, fails |-> 1]
    /\ UNCHANGED pxEnv

PxNext ==
    \/ \E S \in Configs : Setenv(S)
    \/ \E q \in PxRequests, td \in TenantDefaults : APIProxy(q[1], q[2], td)
    \/ \E q \in PxRequests, td \in TenantDefaults : PageProxy(q[1], q[2], td)
    \/ \E q \in PxRequests, td \in TenantDefaults : UploadProxy(q[1], q[2], td)
    \/ \E q \in PxRequests, td \in TenantDefaults : SlugProxy(q[1], q[2], td)
    \/ \E ok \in BOOLEAN : PxServe(ok)

----------------------------------------------------------------------------
(* Dispatcher claims, on the request being served or just served.             *)

\* how many times service s occurs in a sequence of dispatches
Times(seq, s) == Cardinality({i \in DOMAIN seq : seq[i] = s})

\* C15: failover ends after a bounded number of steps: every service is
\* dispatched to at most once for a request, at most three dispatches are made
\* (the route's target, the tenant default, the system default), and a request
\* whose dispatches all failed is answered with the 302 redirect to
\* /auth/login?error=<reason>
C15_BoundedFailover ==
    /\ \A s \in Services : Times(pxReq.dispatched, s) <= 1
    /\ Len(pxReq.dispatched) <= 3
    /\ (pxReq.pc = "done" /\ pxReq.status # 200) =>
           /\ pxReq.status = 302
           /\ pxReq.location \in
                  {"/auth/login?error=" \o QueryEscape(w) :
                       w \in {<<"EOF">>, <<"Service", "not", "found">>,
                              <<"Page", "service", "not", "found">>,
                              <<"Upload", "service", "not", "found">>,
                              <<"Slug", "handler", "not", "found">>}}

\* C16: a service whose last three contacts in a row failed (enough to open
\* its breaker) is not contacted again while nothing has succeeded since
C16_OpenNotContacted == ~pxReq.pastTrip

\* the service the route family names for the request
FamilyService(systemDefault, anyMethodPage) ==
    CASE pxReq.path[1] = "api" /\ Len(pxReq.path) >= 3 -> pxReq.path[2]
      [] pxReq.path[1] = "page" /\ Len(pxReq.path) >= 2
             /\ (anyMethodPage \/ pxReq.method = "GET") -> pxReq.path[2] \o "-ui"
      [] pxReq.path[1] = "upload" /\ Len(pxReq.path) >= 2 -> "file-service"
      [] OTHER -> IF pxReq.arrivedDefault # "" THEN pxReq.arrivedDefault
                  ELSE systemDefault

\* C17 as stated: /page/{service}/* goes to {service}-ui whatever the method,
\* and a path of no family without a tenant default goes to the system
\* default that the failover policy uses
C17_Original ==
    pxReq.pc # "none" => pxReq.chosen = FamilyService("dashboard-service", TRUE)

\* C17 (amended): /api/{service}/* goes to {service}, GET /page/{service}/* to
\* {service}-ui, /upload/* to file-service, and every other request (other
\* paths, and /page paths with another method) to the tenant default service
\* if one is set, else to cms-service; cms-service is not the system default
\* of the failover policy, which is dashboard-service
C17_RouteFamilies ==
    pxReq.pc # "none" =>
        /\ pxReq.chosen = FamilyService("cms-service", FALSE)
        /\ (pxReq.handler = "SlugProxy" /\ pxReq.arrivedDefault = ""
                /\ Len(pxReq.dispatched) >= 2)
               => pxReq.dispatched[2] = "dashboard-service"

\* a path of no family, no tenant default: cms-service first, and when it fails
\* the failover's dashboard-service
C17_Witness ==
    /\ pxReq.handler = "SlugProxy" /\ pxReq.arrivedDefault = ""
    /\ pxReq.path = <<"about">>
    /\ pxReq.dispatched = <<"cms-service", "dashboard-service">>

\* the methods a retry is allowed for
IdempotentMethods == {"GET", "HEAD", "PUT", "DELETE"}

\* C32: for one request an upstream is sent the call at most three times, and
\* it is sent the call a second time only when the method is idempotent; a
\* POST is sent to an upstream at most once.
C32_RetryPolicy ==
    \A s \in Services :
        /\ Times(pxReq.contacted, s) <= 3
        /\ Times(pxReq.contacted, s) > 1 => pxReq.method \in IdempotentMethods

----------------------------------------------------------------------------
(* Middleware pipeline: the r.Use chain of cmd/main.go followed by the        *)
(* middleware and handler of the matched route.  One request at a time walks  *)
(* the chain; a stage either calls c.Next() (the next stage runs) or answers  *)
(* and calls c.Abort(); what stages do after c.Next() returns is the unwind.  *)

\* cap on the correlation ids generated
MaxIds == 2

PlMethods == {"GET", "POST", "OPTIONS"}

\* Origin header: absent, the gateway's own origin, another origin
Origins == {"none", "same", "cross"}

\* no route matches, or a route with no route middleware, with AuthMiddleware
\* only, with AuthMiddleware and RequirePermission
PlRoutes == {"unrouted", "public", "authenticated", "permission"}

\* X-Correlation-ID values: none, the one a client sends, generated ones
NoId == [src |-> "none", n |-> 0]

ClientId == [src |-> "client", n |-> 1]

GeneratedId(n) == [src |-> "generated", n |-> n]

\* mutant: CorrelationIDMiddleware is not registered
EarlyStages_NoId == <<"Recovery", "Logger">>

\* r.Use: Recovery, Correlation ID, Logger
EarlyStages == <<"Recovery", "CorrelationID", "Logger">>

\* mutant: CORS is registered before the request validation
LateStages_CorsFirst(metrics) ==
    (IF metrics THEN <<"Metrics">> ELSE <<>>)
        \o <<"Compression", "CORS", "Validation", "SizeLimit", "Deadline",
             "RateLimit">>

\* r.Use: Metrics unless ENABLE_METRICS is "false", gzip, RequestValidation,
\* RequestSizeLimit, Timeout, cors, RateLimit
LateStages(metrics) ==
    (IF metrics THEN <<"Metrics">> ELSE <<>>)
        \o <<"Compression", "Validation", "SizeLimit", "Deadline", "CORS",
             "RateLimit">>

\* the middleware and handler the matched route adds
RouteStages(route) ==
    CASE route = "public" -> <<"Handler">>
      [] route = "authenticated" -> <<"Authenticate", "Handler">>
      [] route = "permission" -> <<"Authenticate", "Authorize", "Handler">>
      [] OTHER -> <<"NoRoute">>

\* the handlers chain gin runs for a request
Chain(metrics, route) == EarlyStages \o LateStages(metrics) \o RouteStages(route)

NoPlRequest ==
    [pc |-> "none", method |-> "-", contentType |-> FALSE, origin |-> "none",
     reqId |-> NoId, route |-> "-", idx |-> 0, ran |-> <<>>, abortedBy |-> "-",
     handlerRan |-> FALSE, outcome |-> "-", written |-> FALSE, status |-> 0,
     hdrId |-> NoId, ctxId |-> NoId, cors |-> FALSE, bodies |-> <<>>]

PlInit ==
    /\ plMetrics = TRUE
    /\ plReq = NoPlRequest
    /\ plGen = 0

\* the stage whose turn it is
PlAt(stage) ==
    /\ plReq.pc = "chain"
    /\ plReq.idx \in DOMAIN Chain(plMetrics, plReq.route)
    /\ Chain(plMetrics, plReq.route)[plReq.idx] = stage

\* the stage has run and calls c.Next()
PlPass(r, stage) == [r EXCEPT !.idx = @ + 1, !.ran = Append(@, stage)]

\* a JSON body: its keys, the value of "code", the value of "trace_id"
GinH(keys, code) == [keys |-> keys, code |-> code, trace |-> NoId]

\* a response without a body (c.AbortWithStatus)
NoBody == GinH({}, "")

\* errors.NewErrorResponse with nil details: trace_id is left out when empty
NewErrorResponse(code, traceID) ==
    [keys |-> {"code", "message", "timestamp"}
                  \cup (IF traceID # NoId THEN {"trace_id"} ELSE {}),
     code |-> code, trace |-> traceID]

\* c.JSON / c.AbortWithStatus: the first write fixes the status, the headers
\* set so far go out with it; a body is written after whatever was written
PlWrite(r, status, body) ==
    [r EXCEPT !.written = TRUE,
              !.status = IF r.written THEN @ ELSE status,
              !.bodies = IF body = NoBody THEN @ ELSE Append(@, body)]

\* the stage has run, answers and calls c.Abort(): no handler after it runs
PlAbort(r, stage, status, body) ==
    [PlWrite(r, status, body) EXCEPT !.ran = Append(@, stage),
                                     !.abortedBy = stage, !.pc = "unwind"]

\* the gateway is started with ENABLE_METRICS=false: no metrics stage
DisableMetrics ==
    /\ plReq.pc = "none" /\ plMetrics
    /\ plMetrics' = FALSE
    /\ UNCHANGED <<plReq, plGen>>

\* a request reaches the engine (OPTIONS has no registered route)
PlArrive(method, contentType, origin, reqId, route) ==
    /\ plReq.pc \in {"none", "done"}
    /\ (method = "OPTIONS") => (route = "unrouted")
    /\ (reqId = NoId) => (plGen < MaxIds)
    /\ plReq' = [NoPlRequest EXCEPT !.pc = "chain", !.method = method,
                    !.contentType = contentType, !.origin = origin,
                    !.reqId = reqId, !.route = route, !.idx = 1]
    /\ UNCHANGED <<plMetrics, plGen>>

\* RecoveryMiddleware up to c.Next(): installs the deferred recover
RecoveryMiddleware ==
    /\ PlAt("Recovery")
    /\ plReq' = PlPass(plReq, "Recovery")
    /\ UNCHANGED <<plMetrics, plGen>>

\* CorrelationIDMiddleware: take the request's id or generate a fresh one, set
\* it on the response header and in the context, then c.Next()
CorrelationIDMiddleware ==
    /\ PlAt("CorrelationID")
    /\ LET id == IF plReq.reqId # NoId THEN plReq.reqId
                 ELSE GeneratedId(plGen + 1)
       IN  /\ plReq' = PlPass([plReq EXCEPT !.hdrId = id, !.ctxId = id],
                              "CorrelationID")
           /\ plGen' = IF plReq.reqId # NoId THEN plGen ELSE plGen + 1
    /\ UNCHANGED plMetrics

\* LoggerMiddleware up to c.Next()
LoggerMiddleware ==
    /\ PlAt("Logger")
    /\ plReq' = PlPass(plReq, "Logger")
    /\ UNCHANGED <<plMetrics, plGen>>

\* MetricsMiddleware up to c.Next()
MetricsMiddleware ==
    /\ PlAt("Metrics")
    /\ plReq' = PlPass(plReq, "Metrics")
    /\ UNCHANGED <<plMetrics, plGen>>

\* gzip.Gzip: wraps the writer, c.Next()
Gzip ==
    /\ PlAt("Compression")
    /\ plReq' = PlPass(plReq, "Compression")
    /\ UNCHANGED <<plMetrics, plGen>>

\* RequestValidationMiddleware: 400 when the method is neither GET nor DELETE
\* and Content-Type is empty
RequestValidationMiddleware ==
    /\ PlAt("Validation")
    /\ plReq' = IF plReq.method # "GET" /\ plReq.method # "DELETE"
                    /\ ~plReq.contentType
                THEN PlAbort(plReq, "Validation", 400,
                             GinH({"error", "code"}, "MISSING_CONTENT_TYPE"))
                ELSE PlPass(plReq, "Validation")
    /\ UNCHANGED <<plMetrics, plGen>>

\* RequestSizeLimitMiddleware: wraps the body, c.Next()
RequestSizeLimitMiddleware ==
    /\ PlAt("SizeLimit")
    /\ plReq' = PlPass(plReq, "SizeLimit")
    /\ UNCHANGED <<plMetrics, plGen>>

\* TimeoutMiddleware up to c.Next(): attaches the deadline
TimeoutMiddleware ==
    /\ PlAt("Deadline")
    /\ plReq' = PlPass(plReq, "Deadline")
    /\ UNCHANGED <<plMetrics, plGen>>

\* cors.New(corsConfig), every origin allowed: a request without Origin or from
\* the gateway's own origin is passed on untouched; OPTIONS gets the preflight
\* headers and is aborted with 204; any other request gets the policy headers
Cors ==
    /\ PlAt("CORS")
    /\ plReq' = IF plReq.origin # "cross" THEN PlPass(plReq, "CORS")
                ELSE IF plReq.method = "OPTIONS"
                THEN PlAbort([plReq EXCEPT !.cors = TRUE], "CORS", 204, NoBody)
                ELSE PlPass([plReq EXCEPT !.cors = TRUE], "CORS")
    /\ UNCHANGED <<plMetrics, plGen>>

\* RateLimitMiddleware: 429 and c.Abort() when the limiter refuses
PlRateLimit(allowed) ==
    /\ PlAt("RateLimit")
    /\ plReq' = IF allowed THEN PlPass(plReq, "RateLimit")
                ELSE PlAbort(plReq, "RateLimit", 429, GinH({"error"}, ""))
    /\ UNCHANGED <<plMetrics, plGen>>

\* AuthMiddleware: 401 and c.Abort(), or c.Next()
PlAuthenticate(ok) ==
    /\ PlAt("Authenticate")
    /\ plReq' = IF ok THEN PlPass(plReq, "Authenticate")
                ELSE PlAbort(plReq, "Authenticate", 401, GinH({"error"}, ""))
    /\ UNCHANGED <<plMetrics, plGen>>

\* RequirePermission: 403 and c.Abort(), or c.Next()
RequirePermission(ok) ==
    /\ PlAt("Authorize")
    /\ plReq' = IF ok THEN PlPass(plReq, "Authorize")
                ELSE PlAbort(plReq, "Authorize", 403,
                             GinH({"error", "required_permissions",
                                   "missing_permissions"}, ""))
    /\ UNCHANGED <<plMetrics, plGen>>

\* what a handler can do: answer ("ok"), panic before writing ("panic"), return
\* after the deadline without having written ("timeout") or having answered
\* ("late"), panic after it began to answer ("broken"), panic after the
\* deadline without having written ("latepanic")
HandlerOutcomes == {"ok", "panic", "timeout", "late", "broken", "latepanic"}

Wrote(outcome) == outcome \in {"ok", "late", "broken"}

Fired(outcome) == outcome \in {"timeout", "late", "latepanic"}

Panicked(outcome) == outcome \in {"panic", "broken", "latepanic"}

\* the body of a handler's answer
OkBody == GinH({"message", "data"}, "")

\* the route's handler
PlHandler(outcome) ==
    /\ PlAt("Handler")
    /\ LET r == [plReq EXCEPT !.handlerRan = TRUE, !.outcome = outcome,
                              !.pc = "unwind"]
       IN  plReq' = IF Wrote(outcome) THEN PlWrite(r, 200, OkBody) ELSE r
    /\ UNCHANGED <<plMetrics, plGen>>

\* no route matched: gin's 404 after the global middleware
NoRoute ==
    /\ PlAt("NoRoute")
    /\ plReq' = [PlWrite(plReq, 404, GinH({}, "404 page not found"))
                 EXCEPT !.pc = "unwind"]
    /\ UNCHANGED <<plMetrics, plGen>>

\* mutant: the 504 is written whether or not something was written before
TimeoutAfterNext_Always(r) ==
    IF Fired(r.outcome)
    THEN PlWrite(r, 504, NewErrorResponse("TIMEOUT", r.ctxId))
    ELSE r

\* TimeoutMiddleware after c.Next() returned: when the deadline has passed,
\* 504 TIMEOUT if nothing was written yet
TimeoutAfterNext(r) ==
    IF Fired(r.outcome) /\ ~r.written
    THEN PlWrite(r, 504, NewErrorResponse("TIMEOUT", r.ctxId))
    ELSE r

\* the deferred func of RecoveryMiddleware on a panic: c.JSON 500 with the
\* correlation_id of the context
Recover(r) == PlWrite(r, 500, NewErrorResponse("INTERNAL_ERROR", r.ctxId))

\* the chain returns through the stages that ran; a panic passes by what
\* TimeoutMiddleware does after c.Next() and is recovered by RecoveryMiddleware
PlUnwind ==
    /\ plReq.pc = "unwind"
    /\ plReq' = [(IF Panicked(plReq.outcome) THEN Recover(plReq)
                  ELSE IF "Deadline" \in {plReq.ran[i] : i \in DOMAIN plReq.ran}
                  THEN TimeoutAfterNext(plReq)
                  ELSE plReq)
                 EXCEPT !.pc = "done"]
    /\ UNCHANGED <<plMetrics, plGen>>

PlNext ==
    \/ DisableMetrics
    \/ \E m \in PlMethods, ct \in BOOLEAN, o \in Origins,
          id \in {NoId, ClientId}, rt \in PlRoutes : PlArrive(m, ct, o, id, rt)
    \/ RecoveryMiddleware
    \/ CorrelationIDMiddleware
    \/ LoggerMiddleware
    \/ MetricsMiddleware
    \/ Gzip
    \/ RequestValidationMiddleware
    \/ RequestSizeLimitMiddleware
    \/ TimeoutMiddleware
    \/ Cors
    \/ \E allowed \in BOOLEAN : PlRateLimit(allowed)
    \/ \E ok \in BOOLEAN : PlAuthenticate(ok)
    \/ \E ok \in BOOLEAN : RequirePermission(ok)
    \/ \E outcome \in HandlerOutcomes : PlHandler(outcome)
    \/ NoRoute
    \/ PlUnwind

----------------------------------------------------------------------------
(* Pipeline claims, on the request walking the chain or just answered.        *)

\* the documented order of the stages
StageOrder ==
    <<"Recovery", "CorrelationID", "Logger", "Metrics", "Compression",
      "Validation", "SizeLimit", "Deadline", "CORS", "RateLimit",
      "Authenticate", "Authorize">>

\* the stages of the documented order that apply to the request: the global
\* ones (Metrics when it is enabled) and, on protected routes, Authenticate and
\* the route's Authorize
StagesDue ==
    LET Applies(s) ==
            CASE s = "Metrics" -> plMetrics
              [] s = "Authenticate" ->
                     plReq.route \in {"authenticated", "permission"}
              [] s = "Authorize" -> plReq.route = "permission"
              [] OTHER -> TRUE
    IN  SelectSeq(StageOrder, Applies)

Preflight == plReq.method = "OPTIONS" /\ plReq.origin = "cross"

\* C19: a preflight request is answered by the CORS stage with the policy
\* headers, it reaches neither rate limiting nor authentication nor a handler,
\* and no stage before CORS rejects it
C19_PreflightShortCircuited ==
    (Preflight /\ plReq.pc = "done") =>
        /\ plReq.abortedBy = "CORS" /\ plReq.cors /\ plReq.status = 204
        /\ \A i \in DOMAIN plReq.ran :
               plReq.ran[i] \notin {"RateLimit", "Authenticate", "Authorize"}
        /\ ~plReq.handlerRan

\* C20: every response carries X-Correlation-ID: the request's own value when
\* it sent one, otherwise an id generated for this request, which is also the
\* one in the request context
C20_CorrelationIdOnResponse ==
    plReq.pc = "done" =>
        /\ plReq.status # 0
        /\ plReq.hdrId # NoId
        /\ plReq.reqId # NoId => plReq.hdrId = plReq.reqId
        /\ plReq.reqId = NoId =>
               /\ plReq.hdrId = GeneratedId(plGen)
               /\ plReq.ctxId = plReq.hdrId

\* a request without an id whose handler panicked: the 500 of Recovery carries
\* the second id generated
C20_Witness ==
    /\ plReq.pc = "done" /\ plReq.outcome = "panic" /\ plReq.status = 500
    /\ plReq.reqId = NoId /\ plReq.hdrId = GeneratedId(2)

\* C21 as stated: whenever the deadline has fired, a request that had written
\* nothing is answered 504 TIMEOUT by the deadline stage and a request that
\* had written keeps its one answer
C21_Original ==
    (plReq.pc = "done" /\ Fired(plReq.outcome)) =>
        IF Wrote(plReq.outcome)
        THEN plReq.status = 200 /\ plReq.bodies = <<OkBody>>
        ELSE /\ plReq.status = 504
             /\ plReq.bodies = <<NewErrorResponse("TIMEOUT", plReq.ctxId)>>

\* C21 (amended): when the deadline has fired and the chain returned to the
\* deadline stage without a panic, a request that had written nothing is
\* answered 504 with the structured TIMEOUT error, and a request that had
\* written keeps the one status and body it has; when the handler panicked
\* after the deadline without writing, the one answer is the 500 of Recovery
C21_DeadlineAnswer ==
    (plReq.pc = "done" /\ Fired(plReq.outcome)) =>
        /\ Len(plReq.bodies) = 1
        /\ CASE Panicked(plReq.outcome) ->
                    /\ plReq.status = 500
                    /\ plReq.bodies[1].code = "INTERNAL_ERROR"
               [] Wrote(plReq.outcome) ->
                    plReq.status = 200 /\ plReq.bodies = <<OkBody>>
               [] OTHER ->
                    /\ plReq.status = 504
                    /\ plReq.bodies
                           = <<NewErrorResponse("TIMEOUT", plReq.ctxId)>>

\* a handler that answered after the deadline: its 200 is the only answer
C21_Witness ==
    /\ plReq.pc = "done" /\ plReq.outcome = "late"
    /\ plReq.status = 200 /\ plReq.bodies = <<OkBody>>

\* C22: a request whose handler panicked is answered 500 with the one body
\* INTERNAL_ERROR carrying the correlation id of the request, and the server
\* is ready for the next request
C22_PanicAnswered500 ==
    (plReq.pc = "done" /\ Panicked(plReq.outcome)) =>
        /\ plReq.status = 500
        /\ plReq.bodies = <<NewErrorResponse("INTERNAL_ERROR", plReq.hdrId)>>
        /\ plReq.hdrId # NoId

\* the shape {code, message, details?, trace_id?, timestamp}
ErrorShape(body) ==
    /\ {"code", "message", "timestamp"} \subseteq body.keys
    /\ body.keys \subseteq {"code", "message", "details", "trace_id", "timestamp"}
    /\ body.code # ""

\* C23: every error response written by a stage has the shape {code, message,
\* details?, trace_id?, timestamp}, and the 401 of the authenticate stage has
\* the code UNAUTHORIZED
C23_OneErrorShape ==
    (plReq.pc = "done" /\ plReq.status >= 400 /\ plReq.route # "unrouted") =>
        /\ \A i \in DOMAIN plReq.bodies :
               plReq.bodies[i] = OkBody \/ ErrorShape(plReq.bodies[i])
        /\ plReq.status = 401 => plReq.bodies[1].code = "UNAUTHORIZED"

----------------------------------------------------------------------------
(* The two cache levels: the in-process cache over ristretto (L1,             *)
(* server/internal/metrics/metrics.go) and the shared cache over Redis (L2,   *)
(* internal/cache/cache.go).  ristretto applies the Set of a new key and the  *)
(* policy side of a Del from a buffer, after the call has returned.           *)

\* horizon of the cache clock
CaMaxTime == 1
\* capacity of the ristretto set buffer
MaxBuf == 1

CaKeys == {"k1", "k2"}

CaValues == {"v1", "v2"}

\* time-to-live values used by the callers, in clock units
CaTtls == {1}

\* json.Marshal(value)
Marshal(value) == <<"json", value>>

\* json.Unmarshal(data, dest)
Unmarshal(data) == data[2]

\* no item under a key
NoItem == [data |-> <<>>, exp |-> 0]

\* what the law of set/get/delete promises for a key: nothing yet, a miss, or
\* a value until its expiry
NoLaw == [kind |-> "none", value |-> "-", until |-> 0]

NoCacheCall ==
    [level |-> "-", op |-> "-", key |-> "-", result |-> "-", value |-> "-",
     law |-> NoLaw]

NoTieredCall == [pc |-> "none", key |-> "-", value |-> "-", ttl |-> 0,
                 err |-> FALSE, l1Before |-> NoItem, l1After |-> NoItem]

CaInit ==
    /\ caNow = 0
    /\ l1Store = [k \in CaKeys |-> NoItem]
    /\ l1Buf = <<>>
    /\ l2Store = [k \in CaKeys |-> NoItem]
    /\ caLaw = [lv \in {"L1", "L2"} |-> [k \in CaKeys |-> NoLaw]]
    /\ caLast = NoCacheCall
    /\ tcCall = NoTieredCall
    /\ l2Given = [k \in CaKeys |-> {}]

\* an item is served while it is there and has not expired
Live(item, now) == item # NoItem /\ now < item.exp

\* the law after a call that returned nil
LawAfterSet(value, until) ==
    [kind |-> "value", value |-> value, until |-> until]

LawAfterDelete == [kind |-> "miss", value |-> "-", until |-> 0]

\* ristretto SetWithTTL: a key already stored is updated in place; a new key is
\* sent to the set buffer, or dropped when the buffer is full
SetWithTTL(store, buf, key, data, exp) ==
    IF store[key] # NoItem
    THEN [store |-> [store EXCEPT ![key] = [data |-> data, exp |-> exp]],
          buf |-> buf]
    ELSE IF Len(buf) < MaxBuf
    THEN [store |-> store,
          buf |-> Append(buf, [flag |-> "new", key |-> key, data |-> data,
                               exp |-> exp])]
    ELSE [store |-> store, buf |-> buf]

\* L1 Cache.Set: marshal, SetWithTTL (its result is not looked at), return nil
L1Set(key, value, ttl) ==
    /\ LET w == SetWithTTL(l1Store, l1Buf, key, Marshal(value), caNow + ttl)
       IN  l1Store' = w.store /\ l1Buf' = w.buf
    /\ caLaw' = [caLaw EXCEPT !["L1"][key] = LawAfterSet(value, caNow + ttl)]
    /\ caLast' = [NoCacheCall EXCEPT !.level = "L1", !.op = "set", !.key = key,
                                     !.result = "nil"]
    /\ UNCHANGED <<caNow, l2Store, tcCall, l2Given>>

\* L1 Cache.Get: found and not expired, unmarshalled into dest; else the error
\* that stands for a miss
L1Get(key) ==
    /\ caLast' = [level |-> "L1", op |-> "get", key |-> key,
                  result |-> IF Live(l1Store[key], caNow) THEN "nil" ELSE "miss",
                  value |-> IF Live(l1Store[key], caNow)
                            THEN Unmarshal(l1Store[key].data) ELSE "-",
                  law |-> caLaw["L1"][key]]
    /\ UNCHANGED <<caNow, l1Store, l1Buf, l2Store, caLaw, tcCall, l2Given>>

\* L1 Cache.Delete: ristretto Del removes the stored item at once and sends a
\* delete item through the buffer, behind the sets sent before it
L1Delete(key) ==
    /\ Len(l1Buf) < MaxBuf
    /\ l1Store' = [l1Store EXCEPT ![key] = NoItem]
    /\ l1Buf' = Append(l1Buf, [flag |-> "del", key |-> key, data |-> <<>>,
                               exp |-> 0])
    /\ caLaw' = [caLaw EXCEPT !["L1"][key] = LawAfterDelete]
    /\ caLast' = [NoCacheCall EXCEPT !.level = "L1", !.op = "delete",
                                     !.key = key, !.result = "nil"]
    /\ UNCHANGED <<caNow, l2Store, tcCall, l2Given>>

\* ristretto processItems: the next buffered item is applied; a new item is
\* stored when the policy admits it, and admitting it may evict others
L1Process(admit, victims) ==
    /\ l1Buf # <<>>
    /\ LET i == Head(l1Buf) IN
       /\ victims \subseteq CaKeys \ {i.key}
       /\ (victims # {}) => (i.flag = "new" /\ admit)
       /\ (~admit) => (i.flag = "new")
       /\ l1Store' =
              IF i.flag = "del" THEN [l1Store EXCEPT ![i.key] = NoItem]
              ELSE IF admit
              THEN [k \in CaKeys |->
                       IF k = i.key THEN [data |-> i.data, exp |-> i.exp]
                       ELSE IF k \in victims THEN NoItem ELSE l1Store[k]]
              ELSE l1Store
    /\ l1Buf' = Tail(l1Buf)
    /\ UNCHANGED <<caNow, l2Store, caLaw, caLast, tcCall, l2Given>>

\* mutant: the error of the Redis SET is swallowed
RedisSet_NoErr(store, key, data, exp, up) ==
    [store |-> IF up THEN [store EXCEPT ![key] = [data |-> data, exp |-> exp]]
               ELSE store,
     err |-> FALSE]

\* c.client.Set(ctx, key, data, ttl).Err(): stored, or an error when Redis
\* cannot be reached
RedisSet(store, key, data, exp, up) ==
    [store |-> IF up THEN [store EXCEPT ![key] = [data |-> data, exp |-> exp]]
               ELSE store,
     err |-> ~up]

\* L2 Cache.Set
L2Set(key, value, ttl, up) ==
    /\ LET w == RedisSet(l2Store, key, Marshal(value), caNow + ttl, up)
       IN  /\ l2Store' = w.store
           /\ caLaw' = [caLaw EXCEPT !["L2"][key] =
                            IF w.err THEN NoLaw
                            ELSE LawAfterSet(value, caNow + ttl)]
           /\ caLast' = [NoCacheCall EXCEPT
                            !.level = "L2", !.op = "set", !.key = key,
                            !.result = IF w.err THEN "error" ELSE "nil"]
    /\ UNCHANGED <<caNow, l1Store, l1Buf, tcCall, l2Given>>

\* L2 Cache.Get: the value Redis holds, redis.Nil on a miss, or another error
L2Get(key, up) ==
    /\ caLast' = [level |-> "L2", op |-> "get", key |-> key,
                  result |-> IF ~up THEN "error"
                             ELSE IF Live(l2Store[key], caNow) THEN "nil"
                             ELSE "miss",
                  value |-> IF up /\ Live(l2Store[key], caNow)
                            THEN Unmarshal(l2Store[key].data) ELSE "-",
                  law |-> caLaw["L2"][key]]
    /\ UNCHANGED <<caNow, l1Store, l1Buf, l2Store, caLaw, tcCall, l2Given>>

\* L2 Cache.Delete
L2Delete(key, up) ==
    /\ l2Store' = IF up THEN [l2Store EXCEPT ![key] = NoItem] ELSE l2Store
    /\ caLaw' = [caLaw EXCEPT !["L2"][key] =
                     IF up THEN LawAfterDelete ELSE NoLaw]
    /\ caLast' = [NoCacheCall EXCEPT !.level = "L2", !.op = "delete",
                                     !.key = key,
                                     !.result = IF up THEN "nil" ELSE "error"]
    /\ UNCHANGED <<caNow, l1Store, l1Buf, tcCall, l2Given>>

\* time passes
CaTick ==
    /\ caNow < CaMaxTime
    /\ caNow' = caNow + 1
    /\ UNCHANGED <<l1Store, l1Buf, l2Store, caLaw, caLast, tcCall, l2Given>>

\* the wrapper a behaviour calls: the two share no state, and a behaviour
\* stays with the one it called first
Uses(level) == caLast.level \in {"-", level}

\* the two wrappers called directly
CaNext ==
    \/ \E k \in CaKeys, v \in CaValues, t \in CaTtls :
           Uses("L1") /\ L1Set(k, v, t)
    \/ \E k \in CaKeys : Uses("L1") /\ L1Get(k)
    \/ \E k \in CaKeys : Uses("L1") /\ L1Delete(k)
    \/ \E admit \in BOOLEAN, victims \in SUBSET CaKeys :
           L1Process(admit, victims)
    \/ \E k \in CaKeys, v \in CaValues, t \in CaTtls, up \in BOOLEAN :
           Uses("L2") /\ L2Set(k, v, t, up)
    \/ \E k \in CaKeys, up \in BOOLEAN : Uses("L2") /\ L2Get(k, up)
    \/ \E k \in CaKeys, up \in BOOLEAN : Uses("L2") /\ L2Delete(k, up)
    \/ CaTick

\* the two-level Set, first half: the L2 write; on its error the call returns
\* the error
TieredSetL2(key, value, ttl, up) ==
    /\ tcCall.pc \in {"none", "done"}
    /\ UNCHANGED <<caNow, l1Store, l1Buf, caLaw, caLast>>
    /\ LET w == RedisSet(l2Store, key, Marshal(value), caNow + ttl, up)
       IN  /\ l2Store' = w.store
           /\ l2Given' = IF up
                         THEN [l2Given EXCEPT ![key] = @ \cup {Marshal(value)}]
                         ELSE l2Given
           /\ tcCall' = [pc |-> IF w.err THEN "done" ELSE "l1", key |-> key,
                         value |-> value, ttl |-> ttl, err |-> w.err,
                         l1Before |-> l1Store[key], l1After |-> l1Store'[key]]

\* the two-level Set, second half: the L1 write
TieredSetL1 ==
    /\ tcCall.pc = "l1"
    /\ LET w == SetWithTTL(l1Store, l1Buf, tcCall.key, Marshal(tcCall.value),
                           caNow + tcCall.ttl)
       IN  l1Store' = w.store /\ l1Buf' = w.buf
    /\ tcCall' = [tcCall EXCEPT !.pc = "done", !.l1After = l1Store'[tcCall.key]]
    /\ UNCHANGED <<caNow, l2Store, caLaw, caLast, l2Given>>

\* writes through the two-level Set only, within one clock unit
TcNext ==
    \/ \E k \in CaKeys, v \in CaValues, t \in CaTtls, up \in BOOLEAN :
           TieredSetL2(k, v, t, up)
    \/ TieredSetL1
    \/ \E admit \in BOOLEAN, victims \in SUBSET CaKeys :
           L1Process(admit, victims)

----------------------------------------------------------------------------
(* Cache claims *)

\* C24: a get answered by the store after a set of the key returned nil, before
\* the ttl has elapsed and with no set or delete of the key in between, returns
\* the value set; a get answered after a delete of the key returned nil, with
\* no set in between, reports a miss
C24_SetGetDelete ==
    (caLast.op = "get" /\ caLast.result # "error") =>
        /\ (caLast.law.kind = "value" /\ caNow < caLast.law.until) =>
               (caLast.result = "nil" /\ caLast.value = caLast.law.value)
        /\ (caLast.law.kind = "miss") => (caLast.result = "miss")

\* C25: the two-level set gives the value to L2 before L1: whatever L1 stores
\* or has buffered for a key was written to L2 before, and a call whose L2
\* write failed returned the error with the key's L1 item as it was when the
\* call began
C25_L2BeforeL1 ==
    /\ \A k \in CaKeys : l1Store[k] # NoItem => l1Store[k].data \in l2Given[k]
    /\ \A i \in DOMAIN l1Buf :
           l1Buf[i].flag = "new" => l1Buf[i].data \in l2Given[l1Buf[i].key]
    /\ (tcCall.pc = "done" /\ tcCall.err) => tcCall.l1After = tcCall.l1Before
    /\ (tcCall.pc = "l1") => ~tcCall.err

\* a set whose L2 write failed, called while L1 held an earlier value of the key
C25_Witness ==
    /\ tcCall.pc = "done" /\ tcCall.err
    /\ tcCall.l1Before # NoItem
    /\ tcCall.l1After = tcCall.l1Before
    /\ Unmarshal(tcCall.l1Before.data) # tcCall.value

----------------------------------------------------------------------------
(* Permission evaluator: PermissionMiddleware.RequirePermission of            *)
(* unnamed/part_005 with checkPermissions and getUserPermissions.  The        *)
(* permission set type (Has) is outside the source; its matching follows the  *)
(* permission matching rules.                                                 *)

\* a permission: its separator and its segments
Perm(sep, segs) == [sep |-> sep, segs |-> segs]

Star == Perm("", <<"*">>)

\* permissions a caller can hold
GrantedUniverse ==
    {Star, Perm(".", <<"user", "*">>), Perm(".", <<"user", "read">>),
     Perm(":", <<"tenant", "*", "own">>)}

\* the permission lists routes require
RequiredLists ==
    {<<>>, <<Perm(".", <<"user", "read">>)>>,
     <<Perm(".", <<"user", "write">>), Perm(".", <<"user", "create">>)>>,
     <<Perm(".", <<"user", "read">>), Perm(":", <<"tenant", "t1", "own">>)>>,
     <<Perm(".", <<"order", "read">>)>>}

\* the cached permission list of the caller: no entry, or a list
NoList == [found |-> FALSE, perms |-> {}]

CachedList(perms) == [found |-> TRUE, perms |-> perms]

\* a granted permission matches a required one: "*" matches everything, else
\* segment by segment with "*" for any segment
Matches(g, p) ==
    \/ g = Star
    \/ /\ g.sep = p.sep
       /\ Len(g.segs) = Len(p.segs)
       /\ \A i \in DOMAIN g.segs : g.segs[i] = "*" \/ g.segs[i] = p.segs[i]

\* PermissionSet.Has
Has(permSet, required) == \E g \in permSet : Matches(g, required)

\* getUserPermissions: the cached list when there is a non-empty one; on a
\* miss the empty list, which is then cached
getUserPermissions(cache, granted) ==
    IF cache.found /\ cache.perms # {}
    THEN [perms |-> cache.perms, cache |-> cache]
    ELSE [perms |-> {}, cache |-> CachedList({})]

\* checkPermissions: hasAll and the required permissions the set lacks, in
\* the order required
checkPermissions(userPermissions, permissions) ==
    LET Lacks(p) == ~Has(userPermissions, p)
        missing == SelectSeq(permissions, Lacks)
    IN  [hasAll |-> Len(missing) = 0, missing |-> missing]

NoPmRequest ==
    [granted |-> {}, permissions |-> <<>>, authenticated |-> FALSE,
     status |-> 0, missing |-> <<>>, next |-> FALSE,
     stage |-> "-", userId |-> FALSE, tenantId |-> FALSE, skipped |-> FALSE,
     body |-> "-", panic |-> FALSE]

PmInit ==
    /\ pmCache = NoList
    /\ pmLast = NoPmRequest

\* RequirePermission(permissions...) on a request of a caller holding granted:
\* 401 without user_id in the context, 403 with the missing permissions, or
\* c.Next()
PmRequire(granted, permissions, authenticated) ==
    LET u == getUserPermissions(pmCache, granted)
        r == checkPermissions(u.perms, permissions)
        q == [NoPmRequest EXCEPT !.granted = granted,
                                 !.permissions = permissions,
                                 !.authenticated = authenticated]
    IN  IF ~authenticated
        THEN /\ pmLast' = [q EXCEPT !.status = 401]
             /\ UNCHANGED pmCache
        ELSE /\ pmCache' = u.cache
             /\ pmLast' = IF r.hasAll THEN [q EXCEPT !.next = TRUE]
                          ELSE [q EXCEPT !.status = 403, !.missing = r.missing]

PmStages == {"RequirePermission", "RequireAnyPermission", "RequireRole"}

\* RequirePermission and RequireAnyPermission: userID, exists := c.Get("user_id")
\* and tenantID, exists := c.Get("tenant_id"), each answered 401 when absent
CheckedPrincipal(q) ==
    IF ~q.userId
    THEN [q EXCEPT !.status = 401, !.body = "authentication required"]
    ELSE IF ~q.tenantId
    THEN [q EXCEPT !.status = 401, !.body = "tenant context required"]
    ELSE q

\* RequireRole: userID, _ := c.Get("user_id"); userID.(string) and the same for
\* tenant_id: the assertion on a nil interface value panics
AssertedPrincipal(q) ==
    IF ~q.userId \/ ~q.tenantId
    THEN [q EXCEPT !.panic = TRUE]
    ELSE q

\* a stage of the permission middleware on a request whose context lacks
\* user_id, tenant_id or both; skipped: the path has a prefix in SkipPaths
PmUnauthenticated(stage, userId, tenantId, skipped) ==
    LET q == [NoPmRequest EXCEPT !.stage = stage, !.userId = userId,
                                 !.tenantId = tenantId, !.skipped = skipped]
    IN  /\ ~(userId /\ tenantId)
        /\ pmLast' = IF skipped THEN [q EXCEPT !.next = TRUE]
                      ELSE IF stage = "RequireRole" THEN AssertedPrincipal(q)
                      ELSE CheckedPrincipal(q)
        /\ UNCHANGED pmCache

\* the permission list of the caller is written to the cache from outside the
\* gateway
PmCached(perms) ==
    /\ pmCache' = CachedList(perms)
    /\ UNCHANGED pmLast

\* the cached list expires
PmExpire ==
    /\ pmCache.found
    /\ pmCache' = NoList
    /\ UNCHANGED pmLast

PmNext ==
    \/ \E g \in SUBSET GrantedUniverse, ps \in RequiredLists, a \in BOOLEAN :
           PmRequire(g, ps, a)
    \/ \E st \in PmStages, u \in BOOLEAN, t \in BOOLEAN, sk \in BOOLEAN :
           PmUnauthenticated(st, u, t, sk)
    \/ \E g \in SUBSET GrantedUniverse : PmCached(g)
    \/ PmExpire

----------------------------------------------------------------------------
(* Permission claims *)

\* C26: an authenticated request goes on exactly when every required
\* permission is matched by a permission granted to the caller; otherwise it
\* is answered 403 listing exactly the required permissions that no granted
\* permission matches, and the handler does not run
C26_RequireAll ==
    pmLast.authenticated =>
        LET Unmatched(p) == ~\E g \in pmLast.granted : Matches(g, p)
            unmatched == SelectSeq(pmLast.permissions, Unmatched)
        IN  /\ pmLast.next <=> (unmatched = <<>>)
            /\ ~pmLast.next =>
                   pmLast.status = 403 /\ pmLast.missing = unmatched

\* C39: on a request whose context holds no user_id or no tenant_id (and
\* whose path is not on the skip list), each of RequirePermission,
\* RequireAnyPermission and RequireRole answers 401 and aborts: the handler
\* does not run and no panic is raised
C39_NoPrincipalIs401 ==
    (pmLast.stage \in PmStages /\ ~pmLast.skipped
        /\ ~(pmLast.userId /\ pmLast.tenantId)) =>
        /\ pmLast.status = 401
        /\ ~pmLast.next
        /\ ~pmLast.panic

\* the part of C39 about the two stages that look the principal up with a check
CheckedStagesAnswer401 ==
    (pmLast.stage \in PmStages \ {"RequireRole"} /\ ~pmLast.skipped
        /\ ~(pmLast.userId /\ pmLast.tenantId)) =>
        pmLast.status = 401 /\ ~pmLast.next /\ ~pmLast.panic

----------------------------------------------------------------------------
(***************************************************************************)
(* Health checker: package health (RegisterCheck, CheckAll) and the        *)
(* /health route of cmd/main.go.  Time is counted in seconds since the     *)
(* call of CheckAll.                                                       *)
(***************************************************************************)

\* context.WithTimeout(ctx, 5*time.Second)
HealthTimeout == 5

\* the clock stops here
HcMaxTime == 12

HcNames == {"auth-service", "user-service"}

\* a nil error, and an error with a message
Nil == <<>>
errorsNew(msg) == <<msg>>
DeadlineExceeded == errorsNew("context deadline exceeded")

\* what a registered check does: it works for takes seconds and returns
\* result; one that watches its context returns ctx.Err() when the context
\* is done first
HcTakes == {0, 1, HealthTimeout + 1}
HealthChecks ==
    [takes : HcTakes, result : {Nil, errorsNew("connection failed")}, watchesCtx : BOOLEAN]

NoChecks == [n \in {} |-> Nil]

NoHealthRun ==
    [pc |-> "idle", pending |-> {}, running |-> "-", deadline |-> 0,
     Status |-> "healthy", Services |-> NoChecks,
     startedAt |-> NoChecks, sawDeadline |-> NoChecks, returned |-> NoChecks]

NoHealthAnswer ==
    [called |-> FALSE, checks |-> {}, Status |-> "healthy", Services |-> NoChecks,
     returned |-> NoChecks, code |-> 0]

\* NewHealthChecker
HcInit ==
    /\ hcNow = 0
    /\ hcChecks = NoChecks
    /\ hcRun = NoHealthRun
    /\ hcLast = NoHealthAnswer

Put(f, k, v) == [n \in DOMAIN f \cup {k} |-> IF n = k THEN v ELSE f[n]]

\* h.checks[name] = check, at start-up before the server listens
RegisterCheck(name, check) ==
    /\ hcRun.pc = "idle"
    /\ ~hcLast.called
    /\ hcChecks' = Put(hcChecks, name, check)
    /\ UNCHANGED <<hcNow, hcRun, hcLast>>

\* GET /health: CheckAll derives the context and starts the loop
CheckAll ==
    /\ hcRun.pc = "idle"
    /\ hcNow' = 0
    /\ hcRun' = [NoHealthRun EXCEPT !.pc = "loop", !.pending = DOMAIN hcChecks,
                                    !.deadline = HealthTimeout]
    /\ UNCHANGED <<hcChecks, hcLast>>

\* the loop calls the next check of the map, in any order, when the one
\* before has returned
CallCheck(name) ==
    /\ hcRun.pc = "loop"
    /\ name \in hcRun.pending
    /\ hcRun' = [hcRun EXCEPT !.pc = "check", !.running = name,
                              !.pending = @ \ {name},
                              !.startedAt = Put(@, name, hcNow),
                              !.sawDeadline = Put(@, name, hcRun.deadline)]
    /\ UNCHANGED <<hcNow, hcChecks, hcLast>>

\* the moment the running check returns
ReturnsAt(check, start, deadline) ==
    IF check.watchesCtx /\ start + check.takes > deadline
    THEN IF start > deadline THEN start ELSE deadline
    ELSE start + check.takes

\* what it returns; when its work and the deadline end together, either
Outcomes(check, start, deadline) ==
    IF ~check.watchesCtx \/ start + check.takes < deadline THEN {check.result}
    ELSE IF start + check.takes = deadline THEN {check.result, DeadlineExceeded}
    ELSE {DeadlineExceeded}

\* the loop body: the entry of the check and the composite status
Record_KeepsHealthy(run, name, err) ==
    [run EXCEPT !.Services = Put(@, name, IF err # Nil THEN <<"unhealthy: ", err[1]>>
                                           ELSE <<"healthy">>)]
Record(run, name, err) ==
    IF err # Nil
    THEN [run EXCEPT !.Services = Put(@, name, <<"unhealthy: ", err[1]>>),
                     !.Status = "degraded"]
    ELSE [run EXCEPT !.Services = Put(@, name, <<"healthy">>)]

CheckReturns ==
    /\ hcRun.pc = "check"
    /\ LET name == hcRun.running
           start == hcRun.startedAt[name]
       IN /\ hcNow = ReturnsAt(hcChecks[name], start, hcRun.deadline)
          /\ \E err \in Outcomes(hcChecks[name], start, hcRun.deadline) :
                hcRun' = [Record(hcRun, name, err) EXCEPT
                              !.pc = "loop", !.running = "-",
                              !.returned = Put(@, name, err)]
    /\ UNCHANGED <<hcNow, hcChecks, hcLast>>

\* a second passes while a check is at work
HcTick ==
    /\ hcRun.pc = "check"
    /\ hcNow < HcMaxTime
    /\ hcNow < ReturnsAt(hcChecks[hcRun.running], hcRun.startedAt[hcRun.running],
                         hcRun.deadline)
    /\ hcNow' = hcNow + 1
    /\ UNCHANGED <<hcChecks, hcRun, hcLast>>

\* CheckAll returns the snapshot and the route answers 200 or 503
HealthRoute ==
    /\ hcRun.pc = "loop"
    /\ hcRun.pending = {}
    /\ hcLast' = [called |-> TRUE, checks |-> DOMAIN hcChecks,
                  Status |-> hcRun.Status, Services |-> hcRun.Services,
                  returned |-> hcRun.returned,
                  code |-> IF hcRun.Status = "healthy" THEN 200 ELSE 503]
    /\ hcRun' = [hcRun EXCEPT !.pc = "idle"]
    /\ UNCHANGED <<hcNow, hcChecks>>

HcNext ==
    \/ \E name \in HcNames, check \in HealthChecks : RegisterCheck(name, check)
    \/ CheckAll
    \/ \E name \in HcNames : CallCheck(name)
    \/ CheckReturns
    \/ HcTick
    \/ HealthRoute

\* C27: the snapshot CheckAll returns has exactly one entry for every
\* registered name, "healthy" when that check returned nil and "unhealthy: "
\* followed by the error's message otherwise; the composite status is
\* "degraded" exactly when some entry is not healthy and "healthy" otherwise,
\* also when no check is registered.
C27_Snapshot ==
    hcLast.called =>
        /\ DOMAIN hcLast.Services = hcLast.checks
        /\ \A n \in hcLast.checks :
              hcLast.Services[n] = IF hcLast.returned[n] = Nil THEN <<"healthy">>
                                   ELSE <<"unhealthy: ", hcLast.returned[n][1]>>
        /\ hcLast.Status = IF \E n \in hcLast.checks : hcLast.Services[n] # <<"healthy">>
                           THEN "degraded" ELSE "healthy"

\* a snapshot with a healthy and an unhealthy entry
C27_Witness ==
    /\ hcLast.called
    /\ hcLast.checks = HcNames
    /\ \E n \in HcNames : hcLast.returned[n] = Nil
    /\ \E n \in HcNames : hcLast.returned[n] # Nil
    /\ hcLast.Status = "degraded"

\* C28: on /health every registered check is started when CheckAll is
\* called, whatever the other checks take, and every check is given the
\* deadline five seconds after the call.
C28_ConcurrentSharedDeadline ==
    \A n \in DOMAIN hcRun.startedAt :
        /\ hcRun.startedAt[n] = 0
        /\ hcRun.sawDeadline[n] = HealthTimeout

----------------------------------------------------------------------------
(***************************************************************************)
(* Lifecycle: main of cmd/main.go from start to exit, the sweeper          *)
(* goroutine RateLimiter.CleanupLimiters, and the benchmark that runs the  *)
(* sweeper under a context of its own.  The ticker and the end of the      *)
(* grace period are events that may come at any moment.                    *)
(***************************************************************************)

\* requests in flight at once
MaxInflight == 2
\* sweeps followed
MaxSweeps == 2
\* signals followed after the first one
MaxSignals == 2

\* the settings main reads: ENABLE_TRACING = "true", REDIS_URL set
LcSettings == {"ENABLE_TRACING", "REDIS_URL"}

NoSweeper == [pc |-> "none", tick |-> FALSE, sweeps |-> 0]

LcInit ==
    /\ lcProgram = "-"
    /\ lcEnv = {}
    /\ lcMain = [pc |-> "off", forced |-> FALSE, quit |-> 0, later |-> 0]
    /\ lcLog = <<>>
    /\ lcInflight = 0
    /\ lcCtxDone = FALSE
    /\ lcSweeper = NoSweeper

\* the environment the gateway is started in
LcSetenv(name) ==
    /\ lcProgram = "-"
    /\ name \notin lcEnv
    /\ lcEnv' = lcEnv \cup {name}
    /\ UNCHANGED <<lcProgram, lcMain, lcLog, lcInflight, lcCtxDone, lcSweeper>>

\* main up to <-quit: RateLimitMiddleware(rateLimiter) starts the sweeper,
\* and is given no context; the server listens
MainStart ==
    /\ lcProgram = "-"
    /\ lcProgram' = "gateway"
    /\ lcMain' = [lcMain EXCEPT !.pc = "serving"]
    /\ lcSweeper' = [NoSweeper EXCEPT !.pc = "select"]
    /\ UNCHANGED <<lcEnv, lcLog, lcInflight, lcCtxDone>>

\* BenchmarkRateLimiter: ctx, cancel := context.WithCancel; go CleanupLimiters(ctx)
BenchmarkStart ==
    /\ lcProgram = "-"
    /\ lcEnv = {}
    /\ lcProgram' = "benchmark"
    /\ lcSweeper' = [NoSweeper EXCEPT !.pc = "select"]
    /\ UNCHANGED <<lcEnv, lcMain, lcLog, lcInflight, lcCtxDone>>

\* the benchmark function returns: defer cancel()
BenchmarkReturns ==
    /\ lcProgram = "benchmark"
    /\ ~lcCtxDone
    /\ lcCtxDone' = TRUE
    /\ UNCHANGED <<lcProgram, lcEnv, lcMain, lcLog, lcInflight, lcSweeper>>

LcRunning == lcProgram # "-" /\ lcMain.pc # "exited"

\* ticker.C becomes ready
TickerFires ==
    /\ LcRunning
    /\ lcSweeper.pc = "select"
    /\ ~lcSweeper.tick
    /\ lcSweeper.sweeps < MaxSweeps
    /\ lcSweeper' = [lcSweeper EXCEPT !.tick = TRUE]
    /\ UNCHANGED <<lcProgram, lcEnv, lcMain, lcLog, lcInflight, lcCtxDone>>

\* case <-ticker.C: one sweep of the map
SweepOnTick ==
    /\ LcRunning
    /\ lcSweeper.pc = "select"
    /\ lcSweeper.tick
    /\ lcSweeper' = [lcSweeper EXCEPT !.tick = FALSE, !.sweeps = @ + 1]
    /\ UNCHANGED <<lcProgram, lcEnv, lcMain, lcLog, lcInflight, lcCtxDone>>

\* case <-ctx.Done(): return
SweeperReturns ==
    /\ LcRunning
    /\ lcSweeper.pc = "select"
    /\ lcCtxDone
    /\ lcSweeper' = [lcSweeper EXCEPT !.pc = "returned"]
    /\ UNCHANGED <<lcProgram, lcEnv, lcMain, lcLog, lcInflight, lcCtxDone>>

\* a request is accepted while the listener is open
LcRequestArrives ==
    /\ lcMain.pc \in {"serving", "signalled"}
    /\ lcInflight < MaxInflight
    /\ lcInflight' = lcInflight + 1
    /\ UNCHANGED <<lcProgram, lcEnv, lcMain, lcLog, lcCtxDone, lcSweeper>>

LcRequestEnds ==
    /\ lcProgram = "gateway"
    /\ lcMain.pc # "exited"
    /\ lcInflight > 0
    /\ lcInflight' = lcInflight - 1
    /\ UNCHANGED <<lcProgram, lcEnv, lcMain, lcLog, lcCtxDone, lcSweeper>>

\* SIGINT or SIGTERM: <-quit returns
Interrupt ==
    /\ lcMain.pc = "serving"
    /\ lcMain' = [lcMain EXCEPT !.pc = "signalled"]
    /\ UNCHANGED <<lcProgram, lcEnv, lcLog, lcInflight, lcCtxDone, lcSweeper>>

\* mutant: the default disposition of the signal, which ends the process
OnSignal_Default(main) == [main EXCEPT !.pc = "exited", !.later = @ + 1]

\* a signal that arrives after <-quit has returned: Notify is still in force,
\* so the signal is put in the one-slot channel, or dropped when the slot is
\* taken; main does not receive from quit again
OnSignal(main) == [main EXCEPT !.quit = 1, !.later = @ + 1]

\* a second or later SIGINT or SIGTERM, while main shuts down
LaterSignal ==
    /\ lcProgram = "gateway"
    /\ lcMain.pc \notin {"off", "serving", "exited"}
    /\ lcMain.later < MaxSignals
    /\ lcMain' = OnSignal(lcMain)
    /\ UNCHANGED <<lcProgram, lcEnv, lcLog, lcInflight, lcCtxDone, lcSweeper>>

\* srv.Shutdown(ctx) with the 30 s context: the server stops accepting by
\* closing its listener, then waits for the connections to become idle
SrvShutdown ==
    /\ lcMain.pc = "signalled"
    /\ lcMain' = [lcMain EXCEPT !.pc = "draining"]
    /\ lcLog' = lcLog \o <<"stop accepting", "close listener">>
    /\ UNCHANGED <<lcProgram, lcEnv, lcInflight, lcCtxDone, lcSweeper>>

\* Shutdown returns: no request is left, or the 30 s are over
ShutdownReturns(forced) ==
    /\ lcMain.pc = "draining"
    /\ IF forced THEN lcInflight > 0 ELSE lcInflight = 0
    /\ lcMain' = [lcMain EXCEPT !.pc = "drained", !.forced = forced]
    /\ lcLog' = Append(lcLog, "in-flight requests over")
    /\ UNCHANGED <<lcProgram, lcEnv, lcInflight, lcCtxDone, lcSweeper>>

\* authClient.Close(), userClient.Close(), tenantClient.Close()
CloseClients ==
    /\ lcMain.pc = "drained"
    /\ lcMain' = [lcMain EXCEPT !.pc = "closed"]
    /\ lcLog' = lcLog \o <<"close auth client", "close user client", "close tenant client">>
    /\ UNCHANGED <<lcProgram, lcEnv, lcInflight, lcCtxDone, lcSweeper>>

\* the deferred calls of main, last registered first: cacheClient.Close(),
\* tp.Shutdown, log.Sync()
Deferred(env) ==
    (IF "REDIS_URL" \in env THEN <<"close cache pool">> ELSE <<>>)
    \o (IF "ENABLE_TRACING" \in env THEN <<"flush trace exporter">> ELSE <<>>)
    \o <<"flush log sink">>

\* main returns; the process ends with it
MainReturns ==
    /\ lcMain.pc = "closed"
    /\ lcMain' = [lcMain EXCEPT !.pc = "exited"]
    /\ lcLog' = lcLog \o Deferred(lcEnv)
    /\ UNCHANGED <<lcProgram, lcEnv, lcInflight, lcCtxDone, lcSweeper>>

LcMainSteps == SrvShutdown \/ (\E forced \in BOOLEAN : ShutdownReturns(forced))
               \/ CloseClients \/ MainReturns

LcSweeperSteps == SweepOnTick \/ SweeperReturns

LcNext ==
    \/ \E name \in LcSettings : LcSetenv(name)
    \/ MainStart
    \/ BenchmarkStart
    \/ BenchmarkReturns
    \/ TickerFires
    \/ SweepOnTick
    \/ SweeperReturns
    \/ LcRequestArrives
    \/ LcRequestEnds
    \/ Interrupt
    \/ LaterSignal
    \/ SrvShutdown
    \/ \E forced \in BOOLEAN : ShutdownReturns(forced)
    \/ CloseClients
    \/ MainReturns

Done(step) == \E i \in 1 .. Len(lcLog) : lcLog[i] = step
InOrder(a, b) ==
    \E i, j \in 1 .. Len(lcLog) : lcLog[i] = a /\ lcLog[j] = b /\ i < j

\* C29: when the gateway has shut down after the interrupt, its steps were
\* taken in this order: cancel the background tasks, stop accepting, let the
\* requests in flight finish within the grace, close the L2 cache pool (when
\* there is one), close the gRPC/HTTP clients, close the listener, flush the
\* log sink and the trace exporter (when tracing is on).
C29_ShutdownOrder ==
    lcMain.pc = "exited" =>
        /\ InOrder("cancel background tasks", "stop accepting")
        /\ InOrder("stop accepting", "in-flight requests over")
        /\ "REDIS_URL" \in lcEnv =>
              /\ InOrder("in-flight requests over", "close cache pool")
              /\ InOrder("close cache pool", "close auth client")
        /\ InOrder("in-flight requests over", "close auth client")
        /\ InOrder("close tenant client", "close listener")
        /\ InOrder("close listener", "flush log sink")
        /\ "ENABLE_TRACING" \in lcEnv => InOrder("close listener", "flush trace exporter")

\* C30: once shutdown has begun the lifecycle signal is cancelled; once the
\* signal is cancelled the sweeper returns; a sweeper that has returned
\* sweeps no more.
C30_SweeperStops ==
    /\ (lcMain.pc \notin {"off", "serving"}) ~> lcCtxDone
    /\ lcCtxDone ~> (lcSweeper.pc = "returned")
    /\ [][lcSweeper.pc = "returned" => lcSweeper'.sweeps = lcSweeper.sweeps]_vars

TimesDone(step) == Cardinality({i \in 1 .. Len(lcLog) : lcLog[i] = step})

\* what main closes or flushes on its way out
Closings(env) ==
    {"close listener", "close auth client", "close user client", "close tenant client",
     "flush log sink"}
    \cup (IF "REDIS_URL" \in env THEN {"close cache pool"} ELSE {})
    \cup (IF "ENABLE_TRACING" \in env THEN {"flush trace exporter"} ELSE {})

\* C31: a signal that arrives after the first one leaves main where it is and
\* undoes or repeats no step; no step of the shutdown is ever taken twice,
\* and when main has exited every resource has been closed exactly once.
C31_ShutdownIdempotent ==
    /\ [](\A i \in 1 .. Len(lcLog) : TimesDone(lcLog[i]) = 1)
    /\ [](lcMain.pc = "exited" => \A step \in Closings(lcEnv) : TimesDone(step) = 1)
    /\ [][lcMain'.later > lcMain.later => lcMain'.pc = lcMain.pc /\ lcLog' = lcLog]_vars
    /\ [][Len(lcLog') >= Len(lcLog) /\ SubSeq(lcLog', 1, Len(lcLog)) = lcLog]_vars

\* main has exited after signals arrived during its shutdown
C31_Witness ==
    /\ lcMain.pc = "exited"
    /\ lcMain.later >= 2
    /\ lcMain.quit = 1
    /\ "REDIS_URL" \in lcEnv

----------------------------------------------------------------------------
(***************************************************************************)
(* The breaker registry under concurrent GetBreaker calls: the map         *)
(* cb.breakers behind cb.mu.  A breaker instance is known by the number of *)
(* its allocation; 0 stands for no instance.                               *)
(***************************************************************************)

GbNames == {"s1", "s2"}
GbProcs == {"g1", "g2", "g3"}

GbIdle == [pc |-> "idle", name |-> "-", ret |-> 0]

\* NewCircuitBreaker: an empty map, an unlocked mutex
GbInit ==
    /\ gbMap = [n \in GbNames |-> 0]
    /\ gbLock = "-"
    /\ gbProc = [p \in GbProcs |-> GbIdle]
    /\ gbHist = [made |-> [n \in GbNames |-> <<>>],
                 returned |-> [n \in GbNames |-> {}]]

\* instances allocated so far
GbAllocated == Len(gbHist.made["s1"]) + Len(gbHist.made["s2"])

\* a goroutine calls GetBreaker(name)
GbCall(p, name) ==
    /\ gbProc[p].pc = "idle"
    /\ gbProc' = [gbProc EXCEPT ![p] = [pc |-> "read", name |-> name, ret |-> 0]]
    /\ UNCHANGED <<gbMap, gbLock, gbHist>>

GbReturn(p, breaker) ==
    /\ gbProc' = [gbProc EXCEPT ![p].pc = "done", ![p].ret = breaker]
    /\ gbHist' = [gbHist EXCEPT !.returned[gbProc[p].name] = @ \cup {breaker}]

\* RLock; breaker, exists := cb.breakers[name]; RUnlock; return when it exists
GbRead(p) ==
    /\ gbProc[p].pc = "read"
    /\ gbLock = "-"
    /\ IF gbMap[gbProc[p].name] # 0
       THEN GbReturn(p, gbMap[gbProc[p].name])
       ELSE /\ gbProc' = [gbProc EXCEPT ![p].pc = "lock"]
            /\ UNCHANGED gbHist
    /\ UNCHANGED <<gbMap, gbLock>>

\* cb.mu.Lock()
GbLock(p) ==
    /\ gbProc[p].pc = "lock"
    /\ gbLock = "-"
    /\ gbLock' = p
    /\ gbProc' = [gbProc EXCEPT ![p].pc = "locked"]
    /\ UNCHANGED <<gbMap, gbHist>>

\* mutant: the map is not looked at again under the write lock
DoubleCheck_Skipped(map, name) == FALSE

\* if breaker, exists := cb.breakers[name]; exists
DoubleCheck(map, name) == map[name] # 0

\* under the write lock: return the breaker another goroutine stored, or
\* create one, store it and return it; the deferred Unlock
GbCreate(p) ==
    /\ gbProc[p].pc = "locked"
    /\ gbLock = p
    /\ LET name == gbProc[p].name
           fresh == GbAllocated + 1
       IN IF DoubleCheck(gbMap, name)
          THEN /\ GbReturn(p, gbMap[name])
               /\ UNCHANGED gbMap
          ELSE /\ gbMap' = [gbMap EXCEPT ![name] = fresh]
               /\ gbProc' = [gbProc EXCEPT ![p].pc = "done", ![p].ret = fresh]
               /\ gbHist' = [gbHist EXCEPT !.made[name] = Append(@, fresh),
                                           !.returned[name] = @ \cup {fresh}]
    /\ gbLock' = "-"

GbNext ==
    \/ \E p \in GbProcs, n \in GbNames : GbCall(p, n)
    \/ \E p \in GbProcs : GbRead(p)
    \/ \E p \in GbProcs : GbLock(p)
    \/ \E p \in GbProcs : GbCreate(p)

\* C34: whatever the interleaving of GetBreaker calls, at most one breaker is
\* ever created for a name and it stays in the registry; every call for the
\* name returns that instance, and calls for different names return
\* different instances.
C34_OneBreakerPerName ==
    /\ \A n \in GbNames :
          /\ Len(gbHist.made[n]) <= 1
          /\ gbMap[n] = (IF gbHist.made[n] = <<>> THEN 0 ELSE gbHist.made[n][1])
          /\ gbHist.returned[n] \subseteq {gbMap[n]} \ {0}
    /\ gbHist.returned["s1"] \cap gbHist.returned["s2"] = {}

\* two goroutines met the empty registry for s1, one created the breaker and
\* the other found it under the write lock; s2 has a breaker of its own
C34_Witness ==
    /\ gbProc["g1"].pc = "done" /\ gbProc["g2"].pc = "done" /\ gbProc["g3"].pc = "done"
    /\ gbProc["g1"].name = "s1" /\ gbProc["g2"].name = "s1" /\ gbProc["g3"].name = "s2"
    /\ gbProc["g1"].ret = 2 /\ gbProc["g2"].ret = 2 /\ gbProc["g3"].ret = 1

----------------------------------------------------------------------------
(***************************************************************************)
(* Breakers of two services, called one call at a time: Execute under a    *)
(* name runs fn to its end before the next call starts.                    *)
(***************************************************************************)

\* last clock value explored, in units of 30 s
IbMaxTime == 2
\* cap on counts.Requests of one generation
IbMaxCount == 3

IbNames == {"s1", "s2"}

IbInit ==
    /\ ibNow = 1
    /\ ibBreakers = [n \in IbNames |-> NoBreaker]
    /\ ibFailed = {}
    /\ ibLast = [name |-> "-", err |-> "-"]

\* mutant: every name is looked up under one key
RegistryKey_Shared(name) == "s1"

\* cb.breakers[name]
RegistryKey(name) == name

\* Execute(name, fn): the breaker of the name admits the call and counts the
\* result of fn, or refuses the call
IbExecute(name, success) ==
    LET key == RegistryKey(name)
        b0 == IF ibBreakers[key] = NoBreaker THEN NewBreaker(ibNow) ELSE ibBreakers[key]
        r == beforeRequest(b0, ibNow)
    IN /\ currentState(b0, ibNow).counts.Requests < IbMaxCount
       /\ ibBreakers' = [ibBreakers EXCEPT ![key] =
              IF r.err = "nil" THEN afterRequest(r.b, r.b.generation, success, ibNow)
              ELSE r.b]
       /\ ibFailed' = IF r.err = "nil" /\ ~success THEN ibFailed \cup {name} ELSE ibFailed
       /\ ibLast' = [name |-> name,
                     err |-> IF r.err # "nil" THEN r.err
                             ELSE IF success THEN "nil" ELSE "fnError"]
       /\ UNCHANGED ibNow

IbTick ==
    /\ ibNow < IbMaxTime
    /\ ibNow' = ibNow + 1
    /\ UNCHANGED <<ibBreakers, ibFailed, ibLast>>

IbNext ==
    \/ \E n \in IbNames, ok \in BOOLEAN : IbExecute(n, ok)
    \/ IbTick

\* C35: a call executed under one name, whether it succeeds, fails or is
\* refused, leaves the breaker of every other name as it was; a call is
\* refused only by a breaker that calls under its own name have failed on.
C35_BreakersIndependent ==
    /\ [][\A n \in IbNames : n # ibLast'.name => ibBreakers'[n] = ibBreakers[n]]_vars
    /\ [](ibLast.err \in {"ErrOpenState", "ErrTooManyRequests"} => ibLast.name \in ibFailed)

\* s1 has tripped and a call to s2 goes through
C35_Witness ==
    /\ ibBreakers["s1"] # NoBreaker /\ ibBreakers["s1"].state = "open"
    /\ ibNow < ibBreakers["s1"].expiry
    /\ ibLast.name = "s2" /\ ibLast.err = "nil"
    /\ ibBreakers["s2"].state = "closed"

----------------------------------------------------------------------------
(***************************************************************************)
(* The rate limiter's registry under GetLimiter calls and sweeps:          *)
(* internal/middleware/rate_limit.go.  Time is counted in units of 5       *)
(* minutes; a sweep may come at any moment, and so may a call.             *)
(***************************************************************************)

\* last clock value explored
SwMaxTime == 4

\* now.Sub(entry.lastAccess) > 10*time.Minute
IdleTTL == 2

SwKeys == {"k1", "k2"}

SwAbsent == [present |-> FALSE, lastAccess |-> 0]
SwEntry(now) == [present |-> TRUE, lastAccess |-> now]

\* NewRateLimiter: an empty map; nothing called yet
SwInit ==
    /\ swNow = 0
    /\ swLimiters = [k \in SwKeys |-> SwAbsent]
    /\ swLock = "-"
    /\ swCall = [pc |-> "idle", key |-> "-"]
    /\ swSweeper = [pc |-> "select", now |-> 0]
    /\ swTouched = [k \in SwKeys |-> 0]

\* a goroutine calls GetLimiter(key)
SwGetLimiter(key) ==
    /\ swCall.pc = "idle"
    /\ swCall' = [pc |-> "read", key |-> key]
    /\ UNCHANGED <<swNow, swLimiters, swLock, swSweeper, swTouched>>

\* RLock; _, exists := rl.limiters[key]; RUnlock
SwRead ==
    /\ swCall.pc = "read"
    /\ swLock = "-"
    /\ swCall' = [swCall EXCEPT !.pc = IF swLimiters[swCall.key].present
                                       THEN "touch" ELSE "create"]
    /\ UNCHANGED <<swNow, swLimiters, swLock, swSweeper, swTouched>>

\* Lock; the entry, if it is still there, gets lastAccess = time.Now() and its
\* limiter is returned; Unlock
SwTouch ==
    /\ swCall.pc = "touch"
    /\ swLock = "-"
    /\ IF swLimiters[swCall.key].present
       THEN /\ swLimiters' = [swLimiters EXCEPT ![swCall.key].lastAccess = swNow]
            /\ swTouched' = [swTouched EXCEPT ![swCall.key] = swNow]
            /\ swCall' = [pc |-> "idle", key |-> "-"]
       ELSE /\ swCall' = [swCall EXCEPT !.pc = "create"]
            /\ UNCHANGED <<swLimiters, swTouched>>
    /\ UNCHANGED <<swNow, swLock, swSweeper>>

\* Lock; double check; a new entry with lastAccess = time.Now() when the key
\* is absent; Unlock
SwCreate ==
    /\ swCall.pc = "create"
    /\ swLock = "-"
    /\ swLimiters' = [swLimiters EXCEPT ![swCall.key] = SwEntry(swNow)]
    /\ swTouched' = [swTouched EXCEPT ![swCall.key] = swNow]
    /\ swCall' = [pc |-> "idle", key |-> "-"]
    /\ UNCHANGED <<swNow, swLock, swSweeper>>

\* case <-ticker.C: rl.mu.Lock(); now := time.Now()
SwLockMap ==
    /\ swSweeper.pc = "select"
    /\ swLock = "-"
    /\ swLock' = "sweeper"
    /\ swSweeper' = [pc |-> "sweep", now |-> swNow]
    /\ UNCHANGED <<swNow, swLimiters, swCall, swTouched>>

\* mutant: an entry is dropped when it is exactly IdleTTL old
Inactive_AtTtl(now, entry) == now - entry.lastAccess >= IdleTTL

\* now.Sub(entry.lastAccess) > 10*time.Minute
Inactive(now, entry) == now - entry.lastAccess > IdleTTL

\* the loop over the map, and rl.mu.Unlock()
Sweep ==
    /\ swSweeper.pc = "sweep"
    /\ swLimiters' = [k \in SwKeys |->
           IF swLimiters[k].present /\ Inactive(swSweeper.now, swLimiters[k])
           THEN SwAbsent ELSE swLimiters[k]]
    /\ swLock' = "-"
    /\ swSweeper' = [swSweeper EXCEPT !.pc = "select"]
    /\ UNCHANGED <<swNow, swCall, swTouched>>

SwTick ==
    /\ swNow < SwMaxTime
    /\ swNow' = swNow + 1
    /\ UNCHANGED <<swLimiters, swLock, swCall, swSweeper, swTouched>>

SwNext ==
    \/ \E k \in SwKeys : SwGetLimiter(k)
    \/ SwRead
    \/ SwTouch
    \/ SwCreate
    \/ SwLockMap
    \/ Sweep
    \/ SwTick

\* a sweep ends in this step
Swept == swSweeper.pc = "sweep" /\ swSweeper'.pc = "select"

\* C36: a sweep holds the write lock, removes every entry whose lastAccess is
\* more than IdleTTL before the sweep's clock reading and keeps every other
\* entry as it is; an entry is removed only when the last GetLimiter call
\* that reached it lies more than IdleTTL before that reading; and while the
\* sweeper holds the lock no call changes the registry.
C36_SweepByIdleTtl ==
    /\ [][Swept =>
            /\ swLock = "sweeper"
            /\ \A k \in SwKeys :
                  /\ swLimiters'[k] =
                        (IF swLimiters[k].present
                               /\ swSweeper.now - swLimiters[k].lastAccess > IdleTTL
                         THEN SwAbsent ELSE swLimiters[k])
                  /\ (swLimiters[k].present /\ ~swLimiters'[k].present)
                        => swSweeper.now - swTouched[k] > IdleTTL]_vars
    /\ [][(swLock = "sweeper" /\ ~Swept) => swLimiters' = swLimiters]_vars

\* the sweep at 4 has removed the entry last reached at 1 and kept the one
\* last reached at 2, which is exactly IdleTTL old
C36_Witness ==
    /\ swSweeper.pc = "select" /\ swSweeper.now = 4
    /\ ~swLimiters["k1"].present /\ swTouched["k1"] = 1
    /\ swLimiters["k2"].present /\ swLimiters["k2"].lastAccess = 2

----------------------------------------------------------------------------
(***************************************************************************)
(* The active-request gauge (internal/middleware/metrics.go).  Several     *)
(* requests pass the metrics stage concurrently; the gauge's Inc and Dec   *)
(* are atomic.  c.Next() ends by returning (the later stages ran to the    *)
(* end, or one of them aborted the request) or by a panic, which unwinds   *)
(* through the stage to Recovery in front of it.                           *)
(***************************************************************************)
MgMaxArrivals == 4

MgProcs == {"r1", "r2", "r3"}

NextOutcomes == {"returned", "aborted", "panicked"}

MgIdle == [pc |-> "idle", outcome |-> "none"]

MgInit ==
    /\ mgGauge = 0
    /\ mgReq = [p \in MgProcs |-> MgIdle]
    /\ mgTotal = 0
    /\ mgArrived = 0
    /\ mgEnded = {}

\* start := time.Now(); metrics.ActiveRequests.Inc(); the Dec is deferred
MgEnter(p) ==
    /\ mgReq[p].pc = "idle" /\ mgArrived < MgMaxArrivals
    /\ mgGauge' = mgGauge + 1
    /\ mgReq' = [mgReq EXCEPT ![p].pc = "next"]
    /\ mgArrived' = mgArrived + 1
    /\ UNCHANGED <<mgTotal, mgEnded>>

\* c.Next(): the rest of the chain runs and ends one of three ways
MgNextEnds(p, outcome) ==
    /\ mgReq[p].pc = "next"
    /\ mgReq' = [mgReq EXCEPT ![p] = [pc |-> "after", outcome |-> outcome]]
    /\ UNCHANGED <<mgGauge, mgTotal, mgArrived, mgEnded>>

\* the code after c.Next(): skipped when c.Next() panicked
MgRecord(p) ==
    /\ mgReq[p].pc = "after" /\ mgReq[p].outcome # "panicked"
    /\ mgTotal' = mgTotal + 1
    /\ mgReq' = [mgReq EXCEPT ![p].pc = "recorded"]
    /\ UNCHANGED <<mgGauge, mgArrived, mgEnded>>

\* a Dec placed after c.Next() instead of deferred: a panic skips it
DeferredDec_AfterNext(gauge, outcome) ==
    IF outcome = "panicked" THEN gauge ELSE gauge - 1

\* defer metrics.ActiveRequests.Dec(): runs when the stage's function ends,
\* by return or by a panic passing through
DeferredDec(gauge, outcome) == gauge - 1

MgExit(p) ==
    /\ \/ mgReq[p].pc = "recorded"
       \/ mgReq[p].pc = "after" /\ mgReq[p].outcome = "panicked"
    /\ mgGauge' = DeferredDec(mgGauge, mgReq[p].outcome)
    /\ mgEnded' = mgEnded \union {mgReq[p].outcome}
    /\ mgReq' = [mgReq EXCEPT ![p] = MgIdle]
    /\ UNCHANGED <<mgTotal, mgArrived>>

MgNext ==
    \/ \E p \in MgProcs : MgEnter(p)
    \/ \E p \in MgProcs, o \in NextOutcomes : MgNextEnds(p, o)
    \/ \E p \in MgProcs : MgRecord(p)
    \/ \E p \in MgProcs : MgExit(p)

MgInflight == {p \in MgProcs : mgReq[p].pc # "idle"}

\* C37: the active-request gauge equals the number of requests between entry
\* to and exit from the metrics stage, whichever way c.Next() ended (return,
\* abort by a later stage, panic); with no request in flight it is 0 again
C37_GaugeCountsInflight ==
    /\ mgGauge = Cardinality(MgInflight)
    /\ (MgInflight = {} => mgGauge = 0)

\* requests have ended all three ways, one is still in flight
C37_Witness ==
    /\ mgEnded = NextOutcomes
    /\ Cardinality(MgInflight) = 1
    /\ mgGauge = 1

----------------------------------------------------------------------------
(* Specifications *)

Init == CbInit /\ RlInit /\ GlInit /\ AuInit /\ PxInit /\ PlInit /\ CaInit /\ PmInit /\ HcInit /\ LcInit /\ GbInit /\ IbInit /\ SwInit /\ MgInit

\* the circuit breaker alone
SpecCB == Init /\ [][CbNext /\ UNCHANGED <<rlVars, glVars, auVars, pxVars, plVars, caVars, pmVars, hcVars, lcVars, gbVars, ibVars, swVars, mgVars>>]_vars

\* the rate limiter alone, each request one step
SpecRL == Init /\ [][RlNext /\ UNCHANGED <<cbVars, glVars, auVars, pxVars, plVars, caVars, pmVars, hcVars, lcVars, gbVars, ibVars, swVars, mgVars>>]_vars

\* concurrent GetLimiter calls
SpecGL == Init /\ [][GlNext /\ UNCHANGED <<cbVars, rlVars, auVars, pxVars, plVars, caVars, pmVars, hcVars, lcVars, gbVars, ibVars, swVars, mgVars>>]_vars

\* requests through the authenticate stage
SpecAU == Init /\ [][AuNext /\ UNCHANGED <<cbVars, rlVars, glVars, pxVars, plVars, caVars, pmVars, hcVars, lcVars, gbVars, ibVars, swVars, mgVars>>]_vars

\* requests through the dispatcher
SpecPX == Init /\ [][PxNext /\ UNCHANGED <<cbVars, rlVars, glVars, auVars, plVars, caVars, pmVars, hcVars, lcVars, gbVars, ibVars, swVars, mgVars>>]_vars

\* requests through the middleware pipeline
SpecPL ==
    Init /\ [][PlNext /\ UNCHANGED <<cbVars, rlVars, glVars, auVars, pxVars, caVars, pmVars, hcVars, lcVars, gbVars, ibVars, swVars, mgVars>>]_vars

\* calls of the two cache wrappers
SpecCA ==
    Init /\ [][CaNext /\ UNCHANGED <<cbVars, rlVars, glVars, auVars, pxVars,
                                     plVars, pmVars, hcVars, lcVars, gbVars, ibVars, swVars, mgVars>>]_vars

\* writes through the two-level cache
SpecTC ==
    Init /\ [][TcNext /\ UNCHANGED <<cbVars, rlVars, glVars, auVars, pxVars,
                                     plVars, pmVars, hcVars, lcVars, gbVars, ibVars, swVars, mgVars>>]_vars

\* requests through RequirePermission
SpecPM ==
    Init /\ [][PmNext /\ UNCHANGED <<cbVars, rlVars, glVars, auVars, pxVars,
                                     plVars, caVars, hcVars, lcVars, gbVars, ibVars, swVars, mgVars>>]_vars

\* calls of /health
SpecHC ==
    Init /\ [][HcNext /\ UNCHANGED <<cbVars, rlVars, glVars, auVars, pxVars,
                                     plVars, caVars, pmVars, lcVars, gbVars, ibVars, swVars, mgVars>>]_vars

\* the gateway from start to exit, and the sweeper
LcStep ==
    LcNext /\ UNCHANGED <<cbVars, rlVars, glVars, auVars, pxVars, plVars, caVars,
                          pmVars, hcVars, gbVars, ibVars, swVars, mgVars>>

SpecLC == Init /\ [][LcStep]_vars

\* the same, where main and the sweeper goroutine are scheduled whenever
\* they can take a step
SpecLCFair ==
    /\ SpecLC
    /\ WF_vars(LcMainSteps /\ LcStep)
    /\ WF_vars(LcSweeperSteps /\ LcStep)

\* concurrent GetBreaker calls
SpecGB ==
    Init /\ [][GbNext /\ UNCHANGED <<cbVars, rlVars, glVars, auVars, pxVars,
                                    plVars, caVars, pmVars, hcVars, lcVars, ibVars, swVars, mgVars>>]_vars

\* calls under two names, one at a time
SpecIB ==
    Init /\ [][IbNext /\ UNCHANGED <<cbVars, rlVars, glVars, auVars, pxVars,
                                    plVars, caVars, pmVars, hcVars, lcVars,
                                    gbVars, swVars, mgVars>>]_vars

\* GetLimiter calls and sweeps
SpecSW ==
    Init /\ [][SwNext /\ UNCHANGED <<cbVars, rlVars, glVars, auVars, pxVars,
                                    plVars, caVars, pmVars, hcVars, lcVars,
                                    gbVars, ibVars, mgVars>>]_vars

\* requests through the metrics stage
SpecMG ==
    Init /\ [][MgNext /\ UNCHANGED <<cbVars, rlVars, glVars, auVars, pxVars,
                                    plVars, caVars, pmVars, hcVars, lcVars,
                                    gbVars, ibVars, swVars>>]_vars

====
